---- MODULE Spec2Model ----
(***************************************************************************)
(* FocusTrack local document storage: FileUtils (atomic JSON file I/O),    *)
(* StorageEncryptionService, EntityRepository and SettingsRepository.      *)
(*                                                                         *)
(* JavaScript values are tagged tuples: <<"str", s>>, <<"bool", b>>,       *)
(* <<"null">>, <<"ts", n>> (an ISO timestamp), <<"obj", f>> (f a function  *)
(* from property names to values) and <<"arr", seq>>.  A property whose    *)
(* value is `undefined` is a name that is not in DOMAIN f.  File contents  *)
(* are texts: <<"json", v, layout>> is the serialization of v,             *)
(* <<"partial">> a file that was opened for writing and not yet filled,    *)
(* <<"garbage">> malformed content and <<"absent">> a missing file.        *)
(***************************************************************************)
EXTENDS Integers, Sequences, FiniteSets, TLC

VARIABLES
  \* ---- FileUtils on one destination path ----
  dest,      \* content of <path>
  destId,    \* the inode <path> names (0: none)
  bak,       \* content of <path>.bak
  tmp,       \* content of <path>.tmp
  tmpId,     \* the inode <path>.tmp names (0: none)
  dirOk,     \* the parent directory exists
  wpc,       \* per caller: position of its writeJsonFile call
  wreq,      \* per caller: arguments and serialization of that call
  wfd,       \* per caller: the inode its open temp-file descriptor refers to
  wprior,    \* per caller: content of <path> when the call was issued
  wres,      \* per caller: outcome of its last call
  rres,      \* value returned by the last readJsonFile call
  scn,       \* monitor of the last completed file operations
  \* ---- StorageEncryptionService / EntityRepository (one entity type) ----
  enabled,   \* StorageEncryptionService.enabled
  efile,     \* entities/<type>/<name>.json, by base name
  ebak,      \* entities/<type>/<name>.json.bak, by base name
  clock,     \* the wall clock read by new Date()
  genCount,  \* ids handed out by generateId so far
  last,      \* the last repository call: arguments, result and effects
  created,   \* the last createEntity, while no other call changed the store
  ref,       \* reference map: id -> record expected by the callers
  encUsed,   \* some call carried an encryption option
  \* ---- SettingsRepository (its document is <path>) ----
  settings,  \* this.settings, the in-memory array
  sop,       \* per caller: the settings call it is running
  lastSet,   \* the most recent change of the in-memory array
  cacheNull, \* this.settings is null (settings is then the empty sequence)
  \* ---- FileUtils checksums ----
  checksum,  \* content of .checksums/<name>.checksum
  vres,      \* value returned by the last verifyFileIntegrity call
  \* ---- StorageManagerAdapter and the repositories it is given ----
  isInitialized, \* per component: its isInitialized flag
  supplied,  \* per repository: it was passed to the adapter's constructor
  apc,       \* position of the adapter's initialize call
  rpc,       \* per repository: state of its initialize call
  call,      \* the last call on the adapter or on a repository
  emitted,   \* the events emitted during the last step, in order
  \* ---- EntityRepository.updateEntity calls in flight on one record ----
  upc,       \* per caller: position of its updateEntity call
  ureq,      \* per caller: its partial, the record it read, its merge, its result
  \* ---- history ----
  everThrew, \* some writeJsonFile call has thrown since construction
  \* ---- MetadataRepository ----
  mfile,     \* metadata/<key>.json, by key
  mbak,      \* metadata/<key>.json.bak, by key
  mlive,     \* keys stored or updated and not deleted since
  mlast,     \* the last call on the metadata repository
  \* ---- StorageManager in direct mode, given the calls of the repository ----
  dfile,     \* data/tasks/<id>.json, by id
  dbak,      \* data/tasks/<id>.json.bak, by id
  dres,      \* the result of the last call
  \* ---- FileUtils transaction log of one directory ----
  tdir,      \* .transactions/: log entry by file name
  tnow,      \* the wall clock, in milliseconds
  tpc,       \* position of the withTransaction call
  treq,      \* its operation name and the outcome its action will have
  tres,      \* what the last withTransaction call returned or raised
  tlogs,     \* what the last getTransactionLogs call returned
  \* ---- EventEmitter listeners ----
  listening  \* per component: the application listens to its `error` event

fileVars == <<dest, destId, bak, tmp, tmpId, dirOk, wpc, wreq, wfd, wprior,
              wres, rres, scn>>

entityVars == <<enabled, efile, ebak, clock, genCount, last, created, ref, encUsed>>

settingsVars == <<settings, sop, lastSet>>

docVars == <<cacheNull, checksum, vres>>

adapterVars == <<isInitialized, supplied, apc, rpc, call, emitted>>

concVars == <<upc, ureq>>

metaVars == <<mfile, mbak, mlive, mlast>>

directVars == <<dfile, dbak, dres>>

txVars == <<tdir, tnow, tpc, treq, tres, tlogs>>

restVars == <<metaVars, directVars, txVars, listening>>

otherVars == <<concVars, everThrew, restVars>>

vars == <<fileVars, entityVars, settingsVars, docVars, adapterVars, otherVars>>

(***************************************************************************)
(* Values and texts                                                        *)
(***************************************************************************)
Absent  == <<"absent">>
Partial == <<"partial">>
Garbage == <<"garbage">>
Null    == <<"null">>

Str(s) == <<"str", s>>

\* JSON.stringify(data, null, 2) / JSON.stringify(data)
Stringify(v, prettyPrint) ==
  <<"json", v, IF prettyPrint THEN "pretty" ELSE "compact">>

\* JSON.parse: <<"ok", value>> or <<"SyntaxError">>
JsonParse(text) ==
  IF text[1] = "json" THEN <<"ok", text[2]>> ELSE <<"SyntaxError">>

(***************************************************************************)
(* JavaScript objects                                                      *)
(***************************************************************************)
True == <<"bool", "true">>
False == <<"bool", "false">>
Thrown == <<"throw">>
Rejected(msg) == <<"throw", msg>>

Obj(f) == <<"obj", f>>
Arr(s) == <<"arr", s>>
Props(v) == v[2]
Val(v) == <<"val", v>>
Ts(n) == <<"ts", n>>
NoProps == [k \in {} |-> Null]

\* { ...f, ...g }
Merge(f, g) ==
  [k \in (DOMAIN f) \cup (DOMAIN g) |-> IF k \in DOMAIN g THEN g[k] ELSE f[k]]

EncKey(f) == f \o "_encrypted"
IvKey(f) == f \o "_iv"

(***************************************************************************)
(* StorageEncryptionService                                                *)
(***************************************************************************)
\* crypto.randomBytes(saltLength) and crypto.randomBytes(16), hex encoded
SaltSet == {"s1"}
IvSet == {"i1"}

\* AES-256-GCM of JSON.stringify(v) under the key derived from the salt
Cipher(v, salt, iv) == <<"ct", v, salt, iv>>
AuthTag(v, salt, iv) == <<"tag", v, salt, iv>>

EncryptData(on, v, salt, iv) ==
  IF ~on THEN Obj([data |-> v])
  ELSE Obj([data |-> Cipher(v, salt, iv), salt |-> Str(salt), iv |-> Str(iv),
            authTag |-> AuthTag(v, salt, iv)])


\* e: the properties of the argument; <<"ok", {data: value}>> or <<"throw">>.
\* Buffer.from(undefined, 'hex') throws for a missing salt, iv or authTag;
\* decipher.final() throws unless key, iv and tag are those of the ciphertext.
DecryptData(on, e) ==
  IF ~on THEN <<"ok", Obj(IF "data" \in DOMAIN e THEN [data |-> e.data] ELSE NoProps)>>
  ELSE IF /\ {"data", "salt", "iv", "authTag"} \subseteq DOMAIN e
          /\ e.data[1] = "ct"
          /\ e.salt = Str(e.data[3])
          /\ e.iv = Str(e.data[4])
          /\ e.authTag = AuthTag(e.data[2], e.data[3], e.data[4])
    THEN <<"ok", Obj([data |-> e.data[2]])>>
    ELSE Thrown


(***************************************************************************)
(* FileUtils.writeJsonFile, one step per awaited file-system call.         *)
(* Callers are the asynchronous calls in flight; all of them target the    *)
(* same <path> and therefore the same <path>.tmp and <path>.bak.           *)
(***************************************************************************)
Procs == {"p1", "p2"}
P1 == "p1"

\* documents handed to writeJsonFile in the file-level specification
FileData == {Str("A"), Str("B")}

\* the argument of saveSettings' writeJsonFile call: a reference to this.settings
SettingsRef == <<"ref", "settings">>

NoReq ==
  [data |-> Null, createBackup |-> FALSE, prettyPrint |-> FALSE, json |-> Absent]

\* the value a caller's data argument denotes when it is serialized
DataOf(p) ==
  IF wreq[p].data = SettingsRef THEN Arr(settings) ELSE wreq[p].data

\* an inode number that no name and no open descriptor refers to
FreshId ==
  CHOOSE i \in 1..(Cardinality(Procs) + 2) :
    i \notin ({tmpId, destId} \cup {wfd[q] : q \in Procs})

\* content of a file after `mine` is written at offset 0 of content `cur`:
\* a longer earlier content leaves its tail behind the new bytes
WriteOver(cur, mine) ==
  IF cur \in {Partial, mine} THEN {mine} ELSE {mine, Garbage}

WriteStart(p, data, createBackup, prettyPrint) ==
  /\ wpc[p] = "idle"
  /\ wpc' = [wpc EXCEPT ![p] = "ensureDir"]
  /\ wreq' = [wreq EXCEPT ![p] = [data |-> data, createBackup |-> createBackup,
                                  prettyPrint |-> prettyPrint, json |-> Absent]]
  /\ wprior' = [wprior EXCEPT ![p] = dest]
  /\ wres' = [wres EXCEPT ![p] = "pending"]
  /\ scn' = IF scn[1] = "W" THEN <<"P", scn[2]>>
            ELSE IF scn[1] = "WW" THEN <<"P", scn[3]>>
            ELSE <<"P0">>
  /\ UNCHANGED <<dest, destId, bak, tmp, tmpId, dirOk, wfd, rres>>
  /\ UNCHANGED <<entityVars, settingsVars, docVars, adapterVars, otherVars>>

\* await this.ensureDir(dirPath)
EnsureDir(p) ==
  /\ wpc[p] = "ensureDir"
  /\ dirOk' = TRUE
  /\ wpc' = [wpc EXCEPT ![p] = IF wreq[p].createBackup THEN "probe" ELSE "writeTmp"]
  /\ UNCHANGED <<dest, destId, bak, tmp, tmpId, wreq, wfd, wprior, wres, rres, scn>>
  /\ UNCHANGED <<entityVars, settingsVars, docVars, adapterVars, otherVars>>

\* createBackup && await this.fileExists(filePath)
ProbeDest(p) ==
  /\ wpc[p] = "probe"
  /\ wpc' = [wpc EXCEPT ![p] = IF dest # Absent THEN "copyBak" ELSE "writeTmp"]
  /\ UNCHANGED <<dest, destId, bak, tmp, tmpId, dirOk, wreq, wfd, wprior, wres,
                 rres, scn>>
  /\ UNCHANGED <<entityVars, settingsVars, docVars, adapterVars, otherVars>>

\* fs.copyFile(filePath, backupPath): the copy is opened (truncated) ...
CopyBakBegin(p) ==
  /\ wpc[p] = "copyBak"
  /\ bak' = Partial
  /\ wpc' = [wpc EXCEPT ![p] = "copyBakEnd"]
  /\ UNCHANGED <<dest, destId, tmp, tmpId, dirOk, wreq, wfd, wprior, wres, rres, scn>>
  /\ UNCHANGED <<entityVars, settingsVars, docVars, adapterVars, otherVars>>

\* a variant that copies the new document instead of the current destination
CopyBakEndNewData(p) ==
  /\ wpc[p] = "copyBakEnd"
  /\ bak' = Stringify(DataOf(p), wreq[p].prettyPrint)
  /\ wpc' = [wpc EXCEPT ![p] = "writeTmp"]
  /\ UNCHANGED <<dest, destId, tmp, tmpId, dirOk, wreq, wfd, wprior, wres, rres, scn>>
  /\ UNCHANGED <<entityVars, settingsVars, docVars, adapterVars, otherVars>>

\* ... and then filled with the content the destination has by then; a copy
\* by another caller that overlaps it may leave a mix of the two
CopyBakEnd(p) ==
  /\ wpc[p] = "copyBakEnd"
  /\ bak' \in (IF \E q \in Procs \ {p} : wpc[q] = "copyBakEnd"
                 THEN {dest, Garbage} ELSE {dest})
  /\ wpc' = [wpc EXCEPT ![p] = "writeTmp"]
  /\ UNCHANGED <<dest, destId, tmp, tmpId, dirOk, wreq, wfd, wprior, wres, rres, scn>>
  /\ UNCHANGED <<entityVars, settingsVars, docVars, adapterVars, otherVars>>

\* a variant that opens the destination itself instead of <path>.tmp
WriteTmpBeginInPlace(p) ==
  /\ wpc[p] = "writeTmp"
  /\ destId' = IF dest = Absent THEN FreshId ELSE destId
  /\ dest' = Partial
  /\ wfd' = [wfd EXCEPT ![p] = destId']
  /\ wreq' = [wreq EXCEPT ![p].json = Stringify(DataOf(p), wreq[p].prettyPrint)]
  /\ wpc' = [wpc EXCEPT ![p] = "writeTmpEnd"]
  /\ UNCHANGED <<bak, tmp, tmpId, dirOk, wprior, wres, rres, scn>>
  /\ UNCHANGED <<entityVars, settingsVars, docVars, adapterVars, otherVars>>

\* jsonData = JSON.stringify(data); fs.writeFile(tempPath, jsonData): the temp
\* file is created, or the existing one truncated, and held open ...
WriteTmpBegin(p) ==
  /\ wpc[p] = "writeTmp"
  /\ tmpId' = IF tmp = Absent THEN FreshId ELSE tmpId
  /\ tmp' = Partial
  /\ wfd' = [wfd EXCEPT ![p] = tmpId']
  /\ wreq' = [wreq EXCEPT ![p].json = Stringify(DataOf(p), wreq[p].prettyPrint)]
  /\ wpc' = [wpc EXCEPT ![p] = "writeTmpEnd"]
  /\ UNCHANGED <<dest, destId, bak, dirOk, wprior, wres, rres, scn>>
  /\ UNCHANGED <<entityVars, settingsVars, docVars, adapterVars, otherVars>>

\* ... and the serialization is written through the descriptor, to whatever
\* name its inode has by now, and the descriptor is closed
WriteTmpEnd(p) ==
  /\ wpc[p] = "writeTmpEnd"
  /\ IF wfd[p] = tmpId
       THEN /\ tmp' \in WriteOver(tmp, wreq[p].json)
            /\ UNCHANGED dest
     ELSE IF wfd[p] = destId
       THEN /\ dest' \in WriteOver(dest, wreq[p].json)
            /\ UNCHANGED tmp
     ELSE UNCHANGED <<dest, tmp>>
  /\ wfd' = [wfd EXCEPT ![p] = 0]
  /\ wpc' = [wpc EXCEPT ![p] = "rename"]
  /\ UNCHANGED <<destId, bak, tmpId, dirOk, wreq, wprior, wres, rres, scn>>
  /\ UNCHANGED <<entityVars, settingsVars, docVars, adapterVars, otherVars>>

\* fs.writeFile rejects (disk full, permission): control enters the catch
WriteTmpFail(p) ==
  /\ wpc[p] = "writeTmpEnd"
  /\ wfd' = [wfd EXCEPT ![p] = 0]
  /\ wpc' = [wpc EXCEPT ![p] = "cleanup"]
  /\ UNCHANGED <<dest, destId, bak, tmp, tmpId, dirOk, wreq, wprior, wres, rres, scn>>
  /\ UNCHANGED <<entityVars, settingsVars, docVars, adapterVars, otherVars>>

\* fs.rename(tempPath, filePath); the call resolves.  ENOENT when another
\* caller has renamed or unlinked the temp file: control enters the catch
Rename(p) ==
  /\ wpc[p] = "rename"
  /\ IF tmp = Absent
       THEN /\ wpc' = [wpc EXCEPT ![p] = "cleanup"]
            /\ UNCHANGED <<dest, destId, tmp, tmpId, wres, scn>>
       ELSE /\ dest' = tmp
            /\ destId' = tmpId
            /\ tmp' = Absent
            /\ tmpId' = 0
            /\ wpc' = [wpc EXCEPT ![p] = "idle"]
            /\ wres' = [wres EXCEPT ![p] = "ok"]
            /\ scn' = IF scn[1] = "P" /\ wreq[p].createBackup
                        THEN <<"WW", scn[2], tmp>>
                      ELSE IF scn[1] \in {"P", "P0"} THEN <<"W", tmp>>
                      ELSE scn
  /\ UNCHANGED <<bak, dirOk, wreq, wfd, wprior, rres>>
  /\ UNCHANGED <<entityVars, settingsVars, docVars, adapterVars, otherVars>>

\* catch: unlink the temp file if it exists, then throw
Cleanup(p) ==
  /\ wpc[p] = "cleanup"
  /\ tmp' = Absent
  /\ tmpId' = 0
  /\ wpc' = [wpc EXCEPT ![p] = "idle"]
  /\ wres' = [wres EXCEPT ![p] = "threw"]
  /\ scn' = IF scn[1] \in {"P", "P0"} THEN <<"none">> ELSE scn
  /\ everThrew' = TRUE
  /\ UNCHANGED <<dest, destId, bak, dirOk, wreq, wfd, wprior, rres>>
  /\ UNCHANGED <<entityVars, settingsVars, docVars, adapterVars, concVars, restVars>>

\* the process dies between two steps of a call
Crash ==
  /\ \E p \in Procs : wpc[p] \notin {"idle", "crashed"}
  /\ wpc' = [p \in Procs |-> IF wpc[p] = "idle" THEN "idle" ELSE "crashed"]
  /\ wres' = [p \in Procs |-> IF wpc[p] = "idle" THEN wres[p] ELSE "crashed"]
  /\ wfd' = [p \in Procs |-> 0]
  /\ scn' = <<"none">>
  /\ UNCHANGED <<dest, destId, bak, tmp, tmpId, dirOk, wreq, wprior, rres>>
  /\ UNCHANGED <<entityVars, settingsVars, docVars, adapterVars, otherVars>>

\* the application is started again; files are as the crash left them
Restart ==
  /\ \E p \in Procs : wpc[p] = "crashed"
  /\ wpc' = [p \in Procs |-> "idle"]
  /\ UNCHANGED <<dest, destId, bak, tmp, tmpId, dirOk, wreq, wfd, wprior, wres,
                 rres, scn>>
  /\ UNCHANGED <<entityVars, settingsVars, docVars, adapterVars, otherVars>>

\* the destination is overwritten with malformed JSON behind the program's back
Corrupt ==
  /\ \A p \in Procs : wpc[p] = "idle"
  /\ dest \notin {Absent, Garbage}
  /\ dest' = Garbage
  /\ scn' = IF scn[1] = "WW" THEN <<"WWC", scn[2], scn[3]>> ELSE <<"none">>
  /\ UNCHANGED <<destId, bak, tmp, tmpId, dirOk, wpc, wreq, wfd, wprior, wres, rres>>
  /\ UNCHANGED <<entityVars, settingsVars, docVars, adapterVars, otherVars>>

(***************************************************************************)
(* FileUtils.readJsonFile / recoverFromBackup                              *)
(***************************************************************************)
\* [val |-> returned value, file |-> content of filePath afterwards]
RecoverFromBackup(file, backup, defaultValue) ==
  IF backup = Absent THEN [val |-> defaultValue, file |-> file]
  ELSE IF JsonParse(backup)[1] # "ok" THEN [val |-> defaultValue, file |-> file]
  ELSE [val |-> JsonParse(backup)[2], file |-> backup]

ReadJson(file, backup, defaultValue) ==
  IF file = Absent THEN [val |-> defaultValue, file |-> file]
  ELSE IF JsonParse(file)[1] = "ok" THEN [val |-> JsonParse(file)[2], file |-> file]
  ELSE RecoverFromBackup(file, backup, defaultValue)

ReadJsonFile(defaultValue) ==
  /\ \A p \in Procs : wpc[p] = "idle"
  /\ LET r == ReadJson(dest, bak, defaultValue) IN
       /\ rres' = r.val
       /\ dest' = r.file
       /\ scn' = IF scn[1] = "WWC" THEN <<"WWCR", scn[2], scn[3]>>
                 ELSE IF scn[1] \in {"W", "WW"} THEN scn
                 ELSE <<"none">>
  /\ UNCHANGED <<destId, bak, tmp, tmpId, dirOk, wpc, wreq, wfd, wprior, wres>>
  /\ UNCHANGED <<entityVars, settingsVars, docVars, adapterVars, otherVars>>

(***************************************************************************)
(* EntityRepository                                                        *)
(***************************************************************************)
MaxClock == 2
MaxGen == 1

GenId(n) == "entity_" \o ToString(n)
GenIds == {GenId(n) : n \in 1..MaxGen}
CallIds == {"a", "undefined"} \cup GenIds
FileNames == CallIds \cup {"b"}

NoOpts == <<"none">>
OptionSet == {NoOpts, <<"fields", {"title"}>>, <<"encrypt">>}

CreateInputs ==
  { [title |-> Str("A")],
    [id |-> Str("a"), title |-> Str("A")],
    [id |-> Str("undefined"), title |-> Str("A")] }

Partials ==
  { NoProps, [title |-> Str("B")], [note |-> Str("N")], [id |-> Str("b")],
    [createdAt |-> Ts(0)] }

PrepareEntityForStorage(on, data, opts, salt, iv) ==
  IF opts[1] = "fields" /\ on THEN
    LET F == {f \in opts[2] : f \in DOMAIN data}
        enc(f) == Props(EncryptData(on, Obj([data |-> data[f]]), salt, iv))
    IN [k \in (DOMAIN data) \cup {IvKey(f) : f \in F} \cup {EncKey(f) : f \in F} |->
          IF k \in F THEN enc(k).data
          ELSE IF \E f \in F : k = IvKey(f)
            THEN enc(CHOOSE f \in F : k = IvKey(f)).iv
          ELSE IF \E f \in F : k = EncKey(f) THEN True
          ELSE data[k]]
  ELSE IF opts[1] = "encrypt" /\ on THEN
    Merge(Props(EncryptData(on, Obj(data), salt, iv)), "_encrypted" :> True)
  ELSE data

\* base name of getEntityFilePath(entityType, data.id)
StoreName(data) ==
  IF "id" \in DOMAIN data THEN data.id[2] ELSE "undefined"

\* writeJsonFile(filePath, data) with the default options, start to end
WriteJsonWhole(file, backup, data) ==
  [file |-> Stringify(Obj(data), TRUE),
   bak  |-> IF file # Absent THEN file ELSE backup]

\* [res |-> <<"null">> | <<"val", entity>> | <<"throw">>, file |-> content after]
GetEntity(on, file, backup) ==
  IF file = Absent THEN [res |-> Null, file |-> file]
  ELSE
    LET r == ReadJson(file, backup, Null) IN
    IF r.val = Null THEN [res |-> Thrown, file |-> r.file]
    ELSE
      LET d == Props(r.val)
          encF == {f \in DOMAIN d :
                     /\ EncKey(f) \in DOMAIN d
                     /\ d[EncKey(f)] = True
                     /\ IvKey(f) \in DOMAIN d}
          dec(f) == DecryptData(on, [data |-> d[f], iv |-> d[IvKey(f)]])
          markers == {IvKey(f) : f \in encF} \cup {EncKey(f) : f \in encF}
          decryptedData ==
            IF on
              THEN [k \in (DOMAIN d) \ markers |->
                      IF k \in encF THEN Props(dec(k)[2]).data ELSE d[k]]
              ELSE d
      IN
      IF on /\ \E f \in encF : dec(f) = Thrown
        THEN [res |-> Thrown, file |-> r.file]
      ELSE IF "_encrypted" \in DOMAIN d /\ d["_encrypted"] = True /\ on
        THEN LET w == DecryptData(on, d) IN
             [res |-> IF w = Thrown THEN Thrown ELSE Val(w[2]), file |-> r.file]
      ELSE [res |-> Val(Obj(decryptedData)), file |-> r.file]

\* a variant of the merge that lets the partial overwrite the id
MergeUpdateNoPin(existing, partial, entityId, now) ==
  Merge(Merge(existing, partial), [updatedAt |-> Ts(now)])

\* { ...existingEntity, ...data, id: entityId, updatedAt: new Date() }
MergeUpdate(existing, partial, entityId, now) ==
  Merge(Merge(existing, partial), [id |-> Str(entityId), updatedAt |-> Ts(now)])

(***************************************************************************)
(* StorageManager in direct mode (useRepositories not set), entity type    *)
(* 'tasks' (one file per record), encryption service disabled.  The        *)
(* options of a call are then ignored.  Generated ids are taken to be the  *)
(* same on both sides.                                                     *)
(***************************************************************************)
EntityTypeName == "task"

\* [res, file, bak] of createEntity('tasks', data)
DirectCreateEntity(file, backup, dataIn, id, now) ==
  LET data == Merge([id |-> Str(id), createdAt |-> Ts(now), updatedAt |-> Ts(now),
                     type |-> Str(EntityTypeName)], dataIn)
      w == WriteJsonWhole(file, backup, data)
  IN [res |-> Val(Obj(data)), file |-> w.file, bak |-> w.bak]

\* [res, file, bak] of getEntity('tasks', id)
DirectGetEntity(file, backup) ==
  IF file = Absent THEN [res |-> Null, file |-> file, bak |-> backup]
  ELSE LET r == ReadJson(file, backup, Null) IN
       [res |-> IF r.val = Null THEN Null ELSE Val(r.val),
        file |-> r.file, bak |-> backup]

\* [res, file, bak] of updateEntity('tasks', id, data)
DirectUpdateEntity(file, backup, partial, id, now) ==
  IF "id" \in DOMAIN partial /\ partial.id # Str(id)
    THEN [res |-> Rejected("ID mismatch: cannot change entity ID"),
          file |-> file, bak |-> backup]
  ELSE
    LET data == Merge(partial, [updatedAt |-> Ts(now), id |-> Str(id)])
        g == DirectGetEntity(file, backup)
        w == WriteJsonWhole(g.file, backup, data)
    IN IF g.res = Null
         THEN [res |-> Rejected("Entity tasks:" \o id \o " not found"),
               file |-> g.file, bak |-> backup]
         ELSE [res |-> Val(Obj(data)), file |-> w.file, bak |-> w.bak]

\* [res, file, bak] of deleteEntity('tasks', id)
DirectDeleteEntity(file, backup) ==
  IF file = Absent THEN [res |-> False, file |-> file, bak |-> backup]
  ELSE [res |-> True, file |-> Absent, bak |-> backup]

\* the direct-mode store after a call on record id with outcome r; the
\* direct-mode manager runs next to a repository whose encryption is disabled
DirectStore(id, r) ==
  IF enabled THEN UNCHANGED directVars
  ELSE /\ dfile' = [dfile EXCEPT ![id] = r.file]
       /\ dbak' = [dbak EXCEPT ![id] = r.bak]
       /\ dres' = r.res

NoCall ==
  [op |-> "none", id |-> "", opts |-> NoOpts, arg |-> NoProps, res |-> Null,
   wrote |-> {}, removed |-> {}, events |-> <<>>, before |-> Absent]

NoCreate == [id |-> "", data |-> Null, opts |-> NoOpts]

\* a variant that emits the record as it was stored
CreateEntityEmitStored(dataIn, opts, salt, iv) ==
  /\ clock < MaxClock
  /\ "id" \in DOMAIN dataIn \/ genCount < MaxGen
  /\ LET id == IF "id" \in DOMAIN dataIn THEN dataIn.id[2] ELSE GenId(genCount + 1)
         now == clock + 1
         data == Merge(Merge([createdAt |-> Ts(now)], dataIn),
                       [id |-> Str(id), updatedAt |-> Ts(now)])
         prepared == PrepareEntityForStorage(enabled, data, opts, salt, iv)
         name == StoreName(prepared)
         w == WriteJsonWhole(efile[name], ebak[name], prepared)
     IN
       /\ clock' = now
       /\ genCount' = IF "id" \in DOMAIN dataIn THEN genCount ELSE genCount + 1
       /\ efile' = [efile EXCEPT ![name] = w.file]
       /\ ebak' = [ebak EXCEPT ![name] = w.bak]
       /\ last' = [op |-> "create", id |-> id, opts |-> opts, arg |-> dataIn,
                   res |-> Val(Obj(data)), wrote |-> {name}, removed |-> {},
                   events |-> << <<"entityCreated", id, Obj(prepared)>> >>,
                   before |-> efile[id]]
       /\ created' = [id |-> id, data |-> Obj(data), opts |-> opts]
       /\ ref' = [ref EXCEPT ![id] = Obj(data)]
       /\ encUsed' = (encUsed \/ opts # NoOpts)
       /\ DirectStore(id, DirectCreateEntity(dfile[id], dbak[id], dataIn, id, now))
  /\ UNCHANGED enabled
  /\ UNCHANGED <<fileVars, settingsVars, docVars, adapterVars, concVars, everThrew, metaVars, txVars, listening>>

CreateEntity(dataIn, opts, salt, iv) ==
  /\ clock < MaxClock
  /\ "id" \in DOMAIN dataIn \/ genCount < MaxGen
  /\ LET id == IF "id" \in DOMAIN dataIn THEN dataIn.id[2] ELSE GenId(genCount + 1)
         now == clock + 1
         data == Merge(Merge([createdAt |-> Ts(now)], dataIn),
                       [id |-> Str(id), updatedAt |-> Ts(now)])
         prepared == PrepareEntityForStorage(enabled, data, opts, salt, iv)
         name == StoreName(prepared)
         w == WriteJsonWhole(efile[name], ebak[name], prepared)
     IN
       /\ clock' = now
       /\ genCount' = IF "id" \in DOMAIN dataIn THEN genCount ELSE genCount + 1
       /\ efile' = [efile EXCEPT ![name] = w.file]
       /\ ebak' = [ebak EXCEPT ![name] = w.bak]
       /\ last' = [op |-> "create", id |-> id, opts |-> opts, arg |-> dataIn,
                   res |-> Val(Obj(data)), wrote |-> {name}, removed |-> {},
                   events |-> << <<"entityCreated", id, Obj(data)>> >>,
                   before |-> efile[id]]
       /\ created' = [id |-> id, data |-> Obj(data), opts |-> opts]
       /\ ref' = [ref EXCEPT ![id] = Obj(data)]
       /\ encUsed' = (encUsed \/ opts # NoOpts)
       /\ DirectStore(id, DirectCreateEntity(dfile[id], dbak[id], dataIn, id, now))
  /\ UNCHANGED enabled
  /\ UNCHANGED <<fileVars, settingsVars, docVars, adapterVars, concVars, everThrew, metaVars, txVars, listening>>

GetEntityCall(entityId) ==
  /\ LET g == GetEntity(enabled, efile[entityId], ebak[entityId]) IN
       /\ efile' = [efile EXCEPT ![entityId] = g.file]
       /\ last' = [op |-> "get", id |-> entityId, opts |-> NoOpts, arg |-> NoProps,
                   res |-> g.res, wrote |-> {}, removed |-> {},
                   events |-> IF g.res = Thrown
                                THEN << <<"error", entityId, Str("getEntity")>> >>
                                ELSE <<>>,
                   before |-> efile[entityId]]
  /\ DirectStore(entityId, DirectGetEntity(dfile[entityId], dbak[entityId]))
  /\ UNCHANGED <<enabled, ebak, clock, genCount, created, ref, encUsed>>
  /\ UNCHANGED <<fileVars, settingsVars, docVars, adapterVars, concVars, everThrew, metaVars, txVars, listening>>

\* a variant that stores the partial even when no record exists
UpdateEntityUpsert(entityId, partial, opts, salt, iv) ==
  /\ clock < MaxClock
  /\ LET g == GetEntity(enabled, efile[entityId], ebak[entityId])
         existing == IF g.res[1] = "val" THEN Props(g.res[2]) ELSE NoProps
         updated == MergeUpdate(existing, partial, entityId, clock + 1)
         prepared == PrepareEntityForStorage(enabled, updated, opts, salt, iv)
         name == StoreName(prepared)
         w == WriteJsonWhole(g.file, ebak[name], prepared)
     IN
       /\ clock' = clock + 1
       /\ efile' = [efile EXCEPT ![name] = w.file]
       /\ ebak' = [ebak EXCEPT ![name] = w.bak]
       /\ last' = [op |-> "update", id |-> entityId, opts |-> opts, arg |-> partial,
                   res |-> Val(Obj(updated)), wrote |-> {name}, removed |-> {},
                   events |-> << <<"entityUpdated", entityId, Obj(updated)>> >>,
                   before |-> efile[entityId]]
       /\ ref' = [ref EXCEPT ![entityId] = Obj(updated)]
  /\ created' = NoCreate
  /\ encUsed' = (encUsed \/ opts # NoOpts)
  /\ DirectStore(entityId, DirectUpdateEntity(dfile[entityId], dbak[entityId],
                                              partial, entityId, clock + 1))
  /\ UNCHANGED <<enabled, genCount>>
  /\ UNCHANGED <<fileVars, settingsVars, docVars, adapterVars, concVars, everThrew, metaVars, txVars, listening>>

UpdateEntity(entityId, partial, opts, salt, iv) ==
  /\ clock < MaxClock
  /\ LET g == GetEntity(enabled, efile[entityId], ebak[entityId]) IN
       IF g.res[1] # "val" THEN
         \* not found: return null; getEntity raised: emit error and rethrow
         /\ efile' = [efile EXCEPT ![entityId] = g.file]
         /\ last' = [op |-> "update", id |-> entityId, opts |-> opts, arg |-> partial,
                     res |-> g.res, wrote |-> {}, removed |-> {},
                     events |-> IF g.res = Thrown
                                  THEN << <<"error", entityId, Str("getEntity")>>,
                                          <<"error", entityId, Str("updateEntity")>> >>
                                  ELSE <<>>,
                     before |-> efile[entityId]]
         /\ UNCHANGED <<ebak, clock, ref>>
       ELSE
         LET now == clock + 1
             updated == MergeUpdate(Props(g.res[2]), partial, entityId, now)
             prepared == PrepareEntityForStorage(enabled, updated, opts, salt, iv)
             name == StoreName(prepared)
             w == WriteJsonWhole(IF name = entityId THEN g.file ELSE efile[name],
                                 ebak[name], prepared)
         IN
           /\ clock' = now
           /\ efile' = [efile EXCEPT ![entityId] = g.file, ![name] = w.file]
           /\ ebak' = [ebak EXCEPT ![name] = w.bak]
           /\ last' = [op |-> "update", id |-> entityId, opts |-> opts,
                       arg |-> partial, res |-> Val(Obj(updated)),
                       wrote |-> {name}, removed |-> {},
                       events |-> << <<"entityUpdated", entityId, Obj(updated)>> >>,
                       before |-> efile[entityId]]
           /\ ref' = [ref EXCEPT ![entityId] =
                        IF ref[entityId] = Null THEN Null
                        ELSE Obj(Merge(Merge(Props(ref[entityId]), partial),
                                       [id |-> Props(ref[entityId]).id,
                                        updatedAt |-> Ts(now)]))]
  /\ created' = NoCreate
  /\ encUsed' = (encUsed \/ opts # NoOpts)
  /\ DirectStore(entityId, DirectUpdateEntity(dfile[entityId], dbak[entityId],
                                              partial, entityId, clock + 1))
  /\ UNCHANGED <<enabled, genCount>>
  /\ UNCHANGED <<fileVars, settingsVars, docVars, adapterVars, concVars, everThrew, metaVars, txVars, listening>>

\* a variant that reports the deletion without removing the file
DeleteEntityKeepFile(entityId) ==
  /\ efile[entityId] # Absent
  /\ last' = [op |-> "delete", id |-> entityId, opts |-> NoOpts, arg |-> NoProps,
              res |-> True, wrote |-> {}, removed |-> {},
              events |-> << <<"entityDeleted", entityId, Null>> >>,
              before |-> efile[entityId]]
  /\ ref' = [ref EXCEPT ![entityId] = Null]
  /\ created' = NoCreate
  /\ DirectStore(entityId, DirectDeleteEntity(dfile[entityId], dbak[entityId]))
  /\ UNCHANGED <<enabled, efile, ebak, clock, genCount, encUsed>>
  /\ UNCHANGED <<fileVars, settingsVars, docVars, adapterVars, concVars, everThrew, metaVars, txVars, listening>>

DeleteEntity(entityId) ==
  /\ IF efile[entityId] = Absent THEN
       /\ last' = [op |-> "delete", id |-> entityId, opts |-> NoOpts,
                   arg |-> NoProps, res |-> False, wrote |-> {}, removed |-> {},
                   events |-> <<>>, before |-> Absent]
       /\ UNCHANGED <<efile, ref>>
     ELSE
       /\ efile' = [efile EXCEPT ![entityId] = Absent]
       /\ last' = [op |-> "delete", id |-> entityId, opts |-> NoOpts,
                   arg |-> NoProps, res |-> True, wrote |-> {},
                   removed |-> {entityId},
                   events |-> << <<"entityDeleted", entityId, Null>> >>,
                   before |-> efile[entityId]]
       /\ ref' = [ref EXCEPT ![entityId] = Null]
  /\ created' = NoCreate
  /\ DirectStore(entityId, DirectDeleteEntity(dfile[entityId], dbak[entityId]))
  /\ UNCHANGED <<enabled, ebak, clock, genCount, encUsed>>
  /\ UNCHANGED <<fileVars, settingsVars, docVars, adapterVars, concVars, everThrew, metaVars, txVars, listening>>

(***************************************************************************)
(* SettingsRepository on an initialized repository whose cache is loaded.  *)
(* A call runs synchronously up to its first await (saveSettings'          *)
(* ensureDir) and then through the steps of writeJsonFile.                 *)
(***************************************************************************)
MaxSettingOps == 2

SettingKeys == {"theme", "lang"}
SettingValues == {"dark", "light"}

NoSettingCall == [op |-> "none", key |-> "", value |-> ""]
NoChange == [op |-> "none", key |-> "", value |-> "", twice |-> FALSE,
             overlap |-> FALSE]

\* this.settings.findIndex(s => s.key === key), counted from 1; 0 when absent
FindIndex(s, key) ==
  IF \E i \in 1..Len(s) : Props(s[i]).key = Str(key)
    THEN CHOOSE i \in 1..Len(s) :
           /\ Props(s[i]).key = Str(key)
           /\ \A j \in 1..(i - 1) : Props(s[j]).key # Str(key)
    ELSE 0

\* this.settings.splice(index, 1)
Splice(s, index) ==
  [i \in 1..(Len(s) - 1) |-> IF i < index THEN s[i] ELSE s[i + 1]]

\* setSetting's change of this.settings: replace the record of the key in
\* place, or push a new record
UpsertWith(s, key, settingValue, encrypted, encryptionData, now) ==
  LET existingIndex == FindIndex(s, key) IN
  IF existingIndex > 0
    THEN [s EXCEPT ![existingIndex] =
            Obj(Merge(Merge(Merge(Props(s[existingIndex]),
                                  [value |-> settingValue, encrypted |-> encrypted]),
                            encryptionData),
                      [updatedAt |-> Ts(now)]))]
    ELSE Append(s, Obj(Merge(Merge([key |-> Str(key), value |-> settingValue,
                                    encrypted |-> encrypted],
                                   encryptionData),
                             [createdAt |-> Ts(now), updatedAt |-> Ts(now)])))

\* a variant of the upsert that appends without looking for the key
UpsertAlwaysPush(s, key, value, now) ==
  Append(s, Obj([key |-> Str(key), value |-> Str(value), encrypted |-> False,
                 createdAt |-> Ts(now), updatedAt |-> Ts(now)]))

\* the change made by setSetting(key, value) without options
Upsert(s, key, value, now) == UpsertWith(s, key, Str(value), False, NoProps, now)

\* the call to saveSettings: writeJsonFile(this.settingsFile, this.settings)
SaveRequest ==
  [data |-> SettingsRef, createBackup |-> TRUE, prettyPrint |-> TRUE,
   json |-> Absent]

\* a variant of setSetting that returns without saving
SetSettingNoSave(p, key, value) ==
  /\ wpc[p] = "idle"
  /\ clock < MaxSettingOps
  /\ clock' = clock + 1
  /\ settings' = Upsert(settings, key, value, clock + 1)
  /\ sop' = [sop EXCEPT ![p] = [op |-> "set", key |-> key, value |-> value]]
  /\ lastSet' = [op |-> "set", key |-> key, value |-> value,
                 twice |-> (lastSet.op = "set" /\ lastSet.key = key
                              /\ lastSet.value = value),
                 overlap |-> (\E q \in Procs : wpc[q] # "idle")]
  /\ wres' = [wres EXCEPT ![p] = "ok"]
  /\ UNCHANGED <<wpc, wreq>>
  /\ UNCHANGED <<dest, destId, bak, tmp, tmpId, dirOk, wfd, wprior, rres, scn>>
  /\ UNCHANGED <<enabled, efile, ebak, genCount, last, created, ref, encUsed>>
  /\ UNCHANGED <<docVars, adapterVars, otherVars>>

SetSetting(p, key, value) ==
  /\ wpc[p] = "idle"
  /\ clock < MaxSettingOps
  /\ clock' = clock + 1
  /\ settings' = Upsert(settings, key, value, clock + 1)
  /\ sop' = [sop EXCEPT ![p] = [op |-> "set", key |-> key, value |-> value]]
  /\ lastSet' = [op |-> "set", key |-> key, value |-> value,
                 twice |-> (lastSet.op = "set" /\ lastSet.key = key
                              /\ lastSet.value = value),
                 overlap |-> (\E q \in Procs : wpc[q] # "idle")]
  /\ wpc' = [wpc EXCEPT ![p] = "saveEnsureDir"]
  /\ wreq' = [wreq EXCEPT ![p] = SaveRequest]
  /\ wres' = [wres EXCEPT ![p] = "pending"]
  /\ UNCHANGED <<dest, destId, bak, tmp, tmpId, dirOk, wfd, wprior, rres, scn>>
  /\ UNCHANGED <<enabled, efile, ebak, genCount, last, created, ref, encUsed>>
  /\ UNCHANGED <<docVars, adapterVars, otherVars>>

DeleteSetting(p, key) ==
  /\ wpc[p] = "idle"
  /\ clock < MaxSettingOps
  /\ clock' = clock + 1
  /\ sop' = [sop EXCEPT ![p] = [op |-> "delete", key |-> key, value |-> ""]]
  /\ IF FindIndex(settings, key) = 0
       THEN \* return false
            /\ wres' = [wres EXCEPT ![p] = "false"]
            /\ UNCHANGED <<settings, lastSet, wpc, wreq>>
       ELSE /\ settings' = Splice(settings, FindIndex(settings, key))
            /\ lastSet' = [op |-> "delete", key |-> key, value |-> "",
                           twice |-> FALSE,
                           overlap |-> (\E q \in Procs : wpc[q] # "idle")]
            /\ wpc' = [wpc EXCEPT ![p] = "saveEnsureDir"]
            /\ wreq' = [wreq EXCEPT ![p] = SaveRequest]
                      /\ wres' = [wres EXCEPT ![p] = "pending"]
  /\ UNCHANGED <<dest, destId, bak, tmp, tmpId, dirOk, wfd, wprior, rres, scn>>
  /\ UNCHANGED <<enabled, efile, ebak, genCount, last, created, ref, encUsed>>
  /\ UNCHANGED <<docVars, adapterVars, otherVars>>

\* saveSettings: await this.fileUtils.ensureDir(this.settingsPath), then the
\* call of writeJsonFile
SaveEnsureDir(p) ==
  /\ wpc[p] = "saveEnsureDir"
  /\ dirOk' = TRUE
  /\ wpc' = [wpc EXCEPT ![p] = "ensureDir"]
  /\ UNCHANGED <<dest, destId, bak, tmp, tmpId, wreq, wfd, wprior, wres, rres, scn>>
  /\ UNCHANGED <<entityVars, settingsVars, docVars, adapterVars, otherVars>>


(***************************************************************************)
(* SettingsRepository, one call at a time: every call runs to completion   *)
(* before the next is issued.  The repository has an `error` listener.     *)
(***************************************************************************)
MaxSettingCalls == 2

Repos == {"entity", "settings", "metadata"}
Components == Repos \cup {"adapter"}

DefaultSet == {Str("fallback")}

Num(n) == <<"num", n>>

\* a property of null is read
TypeError == Rejected("TypeError")

\* writeJsonFile: throw new Error(`Failed to write file ${filePath}: ...`)
WriteFailed == Rejected("Failed to write file")

\* one emission: emitter, event name, payload
Event(by, name, payload) == [by |-> by, name |-> name, payload |-> payload]

\* the payload of a repository's `error` event
ErrorPayload(operation, extra) ==
  Obj(Merge([operation |-> Str(operation), error |-> Str("message")], extra))

NoSettingsCall ==
  [op |-> "none", key |-> "", value |-> "", encrypted |-> FALSE,
   res |-> Null, before |-> Absent, bakBefore |-> Absent, old |-> Null,
   nullBefore |-> FALSE, prev |-> Null, cached |-> <<>>]

\* what a later call remembers of the call before it
Summary(c) == [op |-> c.op, key |-> c.key, value |-> c.value,
               encrypted |-> c.encrypted, res |-> c.res]

\* writeJsonFile(filePath, value) with the default options, start to end
WriteJsonValue(file, backup, v) ==
  [file |-> Stringify(v, TRUE),
   bak  |-> IF file # Absent THEN file ELSE backup]

\* loadSettings run to completion: the cache, the files and the events after
LoadSettings(file, backup) ==
  IF file # Absent
    THEN LET r == ReadJson(file, backup, Null) IN
         [null |-> r.val = Null,
          settings |-> IF r.val = Null THEN <<>> ELSE r.val[2],
          file |-> r.file, bak |-> backup, events |-> <<>>]
    ELSE LET w == WriteJsonValue(file, backup, Arr(<<>>)) IN
         [null |-> FALSE, settings |-> <<>>, file |-> w.file, bak |-> w.bak,
          events |-> <<Event("settings", "settingsSaved", Obj([count |-> Num(0)]))>>]

\* a variant that reads the document whether or not the cache is set
EnsureLoadedAlways == LoadSettings(dest, bak)

\* if (!this.settings) await this.loadSettings()
EnsureLoaded ==
  IF cacheNull THEN LoadSettings(dest, bak)
  ELSE [null |-> FALSE, settings |-> settings, file |-> dest, bak |-> bak,
        events |-> <<>>]

\* the record of the key, or Null
FindSetting(s, key) ==
  IF FindIndex(s, key) = 0 THEN Null ELSE s[FindIndex(s, key)]

\* the `value` of the record of the key before the call, or Null
OldValue(s, key) ==
  IF FindIndex(s, key) = 0 THEN Null ELSE Props(s[FindIndex(s, key)]).value

\* new SettingsRepository(...) over the files an earlier run left
SettingsRestart ==
  /\ isInitialized["settings"]
  /\ isInitialized' = [isInitialized EXCEPT !["settings"] = FALSE]
  /\ cacheNull' = TRUE
  /\ settings' = <<>>
  /\ call' = NoSettingsCall
  /\ emitted' = <<>>
  /\ UNCHANGED <<fileVars, entityVars, sop, lastSet, checksum, vres, supplied, otherVars, apc, rpc>>

\* the settings document is overwritten with malformed JSON out of band
CorruptSettings ==
  /\ dest \notin {Absent, Garbage}
  /\ dest' = Garbage
  /\ call' = NoSettingsCall
  /\ emitted' = <<>>
  /\ UNCHANGED <<destId, bak, tmp, tmpId, dirOk, wpc, wreq, wfd, wprior, wres, rres, scn>>
  /\ UNCHANGED <<entityVars, settingsVars, cacheNull, checksum, vres>>
  /\ UNCHANGED <<isInitialized, supplied, otherVars, apc, rpc>>

\* the cache is dropped from outside: repository.settings = null
InvalidateCache ==
  /\ isInitialized["settings"]
  /\ ~cacheNull
  /\ cacheNull' = TRUE
  /\ settings' = <<>>
  /\ call' = NoSettingsCall
  /\ emitted' = <<>>
  /\ UNCHANGED <<fileVars, entityVars, sop, lastSet, checksum, vres>>
  /\ UNCHANGED <<isInitialized, supplied, otherVars, apc, rpc>>

\* SettingsRepository.initialize()
SettingsInitialize ==
  /\ ~isInitialized["settings"]
  /\ LET ld == LoadSettings(dest, bak) IN
       /\ cacheNull' = ld.null
       /\ settings' = ld.settings
       /\ dest' = ld.file
       /\ bak' = ld.bak
       /\ emitted' = ld.events \o <<Event("settings", "initialized", Null)>>
  /\ dirOk' = TRUE
  /\ isInitialized' = [isInitialized EXCEPT !["settings"] = TRUE]
  /\ call' = [NoSettingsCall EXCEPT !.op = "initialize", !.res = True,
                                    !.before = dest, !.bakBefore = bak]
  /\ UNCHANGED <<destId, tmp, tmpId, wpc, wreq, wfd, wprior, wres, rres, scn>>
  /\ UNCHANGED <<entityVars, sop, lastSet, checksum, vres, supplied, otherVars, apc, rpc>>

\* the outcome of a settings call: cache, files, result and events
SettingsOutcome(null, s, file, backup, res, events) ==
  [null |-> null, settings |-> s, file |-> file, bak |-> backup, res |-> res,
   events |-> events]

\* saveSettings run to completion; io = "fail": writeJsonFile throws after the
\* backup copy, saveSettings emits its own `error` event and rethrows
SaveSettings(s, file, backup, io) ==
  LET w == WriteJsonValue(file, backup, Arr(s)) IN
  IF io = "fail"
    THEN [ok |-> FALSE, file |-> file, bak |-> w.bak,
          events |-> <<Event("settings", "error",
                             ErrorPayload("saveSettings", NoProps))>>]
    ELSE [ok |-> TRUE, file |-> w.file, bak |-> w.bak,
          events |-> <<Event("settings", "settingsSaved",
                             Obj([count |-> Num(Len(s))]))>>]

\* setSetting(key, value, {encrypted}) on an initialized repository
SetSettingOutcome(key, value, encrypted, salt, iv, io, now) ==
  LET ld == EnsureLoaded
      on == encrypted /\ enabled
      enc == Props(EncryptData(TRUE, Obj([data |-> Str(value)]), salt, iv))
      settingValue == IF on THEN enc.data ELSE Str(value)
      encryptionData == IF on THEN [iv |-> enc.iv] ELSE NoProps
      flag == IF encrypted THEN True ELSE False
      fail == <<Event("settings", "error",
                      ErrorPayload("setSetting", [key |-> Str(key)]))>>
  IN
  IF ld.null
    THEN \* this.settings.findIndex: TypeError on null
         SettingsOutcome(TRUE, <<>>, ld.file, ld.bak, TypeError, ld.events \o fail)
    ELSE LET s == UpsertWith(ld.settings, key, settingValue, flag, encryptionData, now)
             sv == SaveSettings(s, ld.file, ld.bak, io)
         IN
         IF sv.ok
           THEN SettingsOutcome(FALSE, s, sv.file, sv.bak, True,
                  ld.events \o sv.events \o
                  <<Event("settings", "settingChanged",
                          Obj([key |-> Str(key), value |-> Str(value)]))>>)
           ELSE SettingsOutcome(FALSE, s, sv.file, sv.bak, WriteFailed,
                  ld.events \o sv.events \o fail)

\* getSetting(key, defaultValue) on an initialized repository
GetSettingOutcome(key, defaultValue) ==
  LET ld == EnsureLoaded
      setting == FindSetting(ld.settings, key)
      fail == <<Event("settings", "error",
                      ErrorPayload("getSetting", [key |-> Str(key)]))>>
      keep(res, ev) == SettingsOutcome(ld.null, ld.settings, ld.file, ld.bak, res,
                                       ld.events \o ev)
  IN
  IF ld.null THEN keep(TypeError, fail)   \* this.settings.find on null
  ELSE IF setting = Null THEN keep(Val(defaultValue), <<>>)
  ELSE IF Props(setting).encrypted = True /\ enabled
    THEN LET p == Props(setting)
             d == DecryptData(TRUE, IF "iv" \in DOMAIN p
                                      THEN [data |-> p.value, iv |-> p.iv]
                                      ELSE [data |-> p.value])
         IN IF d = Thrown THEN keep(Thrown, fail)
            ELSE keep(Val(Props(d[2]).data), <<>>)
  ELSE keep(Val(Props(setting).value), <<>>)

\* deleteSetting(key) on an initialized repository
DeleteSettingOutcome(key, io) ==
  LET ld == EnsureLoaded
      fail == <<Event("settings", "error",
                      ErrorPayload("deleteSetting", [key |-> Str(key)]))>>
  IN
  IF ld.null
    THEN SettingsOutcome(TRUE, <<>>, ld.file, ld.bak, TypeError, ld.events \o fail)
  ELSE IF FindIndex(ld.settings, key) = 0
    THEN SettingsOutcome(FALSE, ld.settings, ld.file, ld.bak, False, ld.events)
  ELSE LET s == Splice(ld.settings, FindIndex(ld.settings, key))
           sv == SaveSettings(s, ld.file, ld.bak, io)
       IN
       IF sv.ok
         THEN SettingsOutcome(FALSE, s, sv.file, sv.bak, True,
                ld.events \o sv.events \o
                <<Event("settings", "settingDeleted", Obj([key |-> Str(key)]))>>)
         ELSE SettingsOutcome(FALSE, s, sv.file, sv.bak, WriteFailed,
                ld.events \o sv.events \o fail)

\* getAllSettings() on an initialized repository
GetAllSettingsOutcome ==
  LET ld == EnsureLoaded IN
  SettingsOutcome(ld.null, ld.settings, ld.file, ld.bak,
                  Val(IF ld.null THEN Null ELSE Arr(ld.settings)), ld.events)

\* a public call on the settings repository: the isInitialized guard, then
\* the operation
SettingsCall(c, tick, o) ==
  /\ call' = [c EXCEPT !.res = IF isInitialized["settings"] THEN o.res
                                ELSE Rejected("SettingsRepository not initialized"),
                       !.before = dest, !.bakBefore = bak,
                       !.old = (IF cacheNull THEN Null ELSE OldValue(settings, c.key)),
                       !.nullBefore = cacheNull,
                       !.cached = settings,
                       !.prev = Summary(call)]
  /\ IF isInitialized["settings"]
       THEN /\ cacheNull' = o.null
            /\ settings' = o.settings
            /\ dest' = o.file
            /\ bak' = o.bak
            /\ emitted' = o.events
            /\ clock' = clock + tick
       ELSE /\ emitted' = <<>>
            /\ UNCHANGED <<cacheNull, settings, dest, bak, clock>>
  /\ UNCHANGED <<destId, tmp, tmpId, dirOk, wpc, wreq, wfd, wprior, wres, rres, scn>>
  /\ UNCHANGED <<enabled, efile, ebak, genCount, last, created, ref, encUsed>>
  /\ UNCHANGED <<sop, lastSet, checksum, vres, isInitialized, supplied, otherVars, apc, rpc>>

SetSettingCall(key, value, encrypted, salt, iv, io) ==
  /\ clock < MaxSettingCalls
  /\ SettingsCall([NoSettingsCall EXCEPT !.op = "setSetting", !.key = key,
                                         !.value = value, !.encrypted = encrypted],
                  1,
                  SetSettingOutcome(key, value, encrypted, salt, iv, io, clock + 1))

GetSettingCall(key, defaultValue) ==
  /\ defaultValue \in DefaultSet
  /\ SettingsCall([NoSettingsCall EXCEPT !.op = "getSetting", !.key = key,
                                      !.value = defaultValue],
               0, GetSettingOutcome(key, defaultValue))

DeleteSettingCall(key, io) ==
  /\ clock < MaxSettingCalls
  /\ SettingsCall([NoSettingsCall EXCEPT !.op = "deleteSetting", !.key = key],
                  1, DeleteSettingOutcome(key, io))

GetAllSettingsCall ==
  /\ apc = "idle"
  /\ SettingsCall([NoSettingsCall EXCEPT !.op = "getAllSettings"],
               0, GetAllSettingsOutcome)

(***************************************************************************)
(* FileUtils, one call at a time: writeJsonFile with its options,          *)
(* readJsonFile, verifyFileIntegrity, and changes of the file made behind  *)
(* the program's back.  scn is <<stage, data, createBackup, storeChecksum>> *)
(* for the last writeJsonFile call and what happened to the file since.    *)
(***************************************************************************)
\* calculateChecksum: SHA-256 of the file's bytes, hex encoded
Sha256(text) == <<"sha256", text>>

\* what a foreign writer may leave in the file
ForeignTexts ==
  {Garbage} \cup {Stringify(d, pp) : d \in FileData, pp \in BOOLEAN}

\* a variant that treats a missing checksum file as a mismatch
VerifyFileIntegrityStrict(file, sum) ==
  IF sum = Absent THEN False
  ELSE IF file = Absent THEN False
  ELSE IF sum = Sha256(file) THEN True ELSE False

\* verifyFileIntegrity: true without a stored checksum; false when the file
\* cannot be read; else the comparison of the stored and the current checksum
VerifyFileIntegrity(file, sum) ==
  IF sum = Absent THEN True
  ELSE IF file = Absent THEN False
  ELSE IF sum = Sha256(file) THEN True ELSE False

\* writeJsonFile(path, data, {createBackup, storeChecksum}), start to end
WriteJsonFileCall(data, createBackup, storeChecksum) ==
  /\ dest' = Stringify(data, TRUE)
  /\ bak' = IF createBackup /\ dest # Absent THEN dest ELSE bak
  /\ checksum' = IF storeChecksum THEN Sha256(Stringify(data, TRUE)) ELSE checksum
  /\ dirOk' = TRUE
  /\ scn' = <<"written", data, createBackup, storeChecksum>>
  /\ rres' = <<"none">>
  /\ vres' = <<"none">>
  /\ UNCHANGED <<destId, tmp, tmpId, wpc, wreq, wfd, wprior, wres>>
  /\ UNCHANGED <<entityVars, settingsVars, cacheNull, adapterVars, otherVars>>

\* the file is overwritten out of band
ForeignWrite(text) ==
  /\ dest # Absent
  /\ text # dest
  /\ dest' = text
  /\ scn' = IF scn[1] \in {"written", "changed", "corrupted"}
              THEN <<IF text = Garbage THEN "corrupted" ELSE "changed",
                     scn[2], scn[3], scn[4]>>
              ELSE <<"none">>
  /\ rres' = <<"none">>
  /\ vres' = <<"none">>
  /\ UNCHANGED <<destId, bak, tmp, tmpId, dirOk, wpc, wreq, wfd, wprior, wres>>
  /\ UNCHANGED <<entityVars, settingsVars, cacheNull, checksum, adapterVars, otherVars>>

\* readJsonFile(path) with the default defaultValue
ReadJsonFileCall ==
  /\ LET r == ReadJson(dest, bak, Null) IN
       /\ rres' = Val(r.val)
       /\ dest' = r.file
  /\ scn' = IF scn[1] = "corrupted"
              THEN <<"corruptedRead", scn[2], scn[3], scn[4]>>
              ELSE IF scn[1] = "written" THEN scn ELSE <<"none">>
  /\ vres' = <<"none">>
  /\ UNCHANGED <<destId, bak, tmp, tmpId, dirOk, wpc, wreq, wfd, wprior, wres>>
  /\ UNCHANGED <<entityVars, settingsVars, cacheNull, checksum, adapterVars, otherVars>>

\* verifyFileIntegrity(path)
VerifyFileIntegrityCall ==
  /\ vres' = VerifyFileIntegrity(dest, checksum)
  /\ rres' = <<"none">>
  /\ UNCHANGED <<dest, destId, bak, tmp, tmpId, dirOk, wpc, wreq, wfd, wprior,
                 wres, scn>>
  /\ UNCHANGED <<entityVars, settingsVars, cacheNull, checksum, adapterVars, otherVars>>

(***************************************************************************)
(* StorageManagerAdapter over the three repositories.  A repository        *)
(* operation is here its isInitialized guard, its outcome and the events   *)
(* it emits.  Every component is an EventEmitter: emitting `error` on one   *)
(* that has no listener for it throws.                                     *)
(***************************************************************************)
\* the order in which initialize() visits the repositories
RepoOrder == <<"entity", "settings", "metadata">>

\* the public operations of each repository
RepoMethods(r) ==
  IF r = "entity"
    THEN {"createEntity", "getEntity", "getAllEntities", "updateEntity",
          "deleteEntity", "searchEntities"}
  ELSE IF r = "settings"
    THEN {"getSetting", "getAllSettings", "setSetting", "deleteSetting"}
  ELSE {"getMetadata", "storeMetadata", "deleteMetadata", "listMetadataKeys",
        "updateMetadata"}

\* the delegated methods of the adapter carry the names of the operations
AdapterMethods == UNION {RepoMethods(r) : r \in Repos}

RepoOf(m) == CHOOSE r \in Repos : m \in RepoMethods(r)

ClassName(r) ==
  IF r = "entity" THEN "EntityRepository"
  ELSE IF r = "settings" THEN "SettingsRepository"
  ELSE "MetadataRepository"

Label(r) ==
  IF r = "entity" THEN "Entity"
  ELSE IF r = "settings" THEN "Settings"
  ELSE "Metadata"

NotInitialized(c) ==
  Rejected((IF c = "adapter" THEN "StorageManagerAdapter" ELSE ClassName(c))
           \o " not initialized")

NotAvailable(r) == Rejected(Label(r) \o " repository not available")

\* the events a repository operation emits when it succeeds, in order
SuccessEvents(m) ==
  LET entity == Obj([entityType |-> Str("tasks"), id |-> Str("a")])
      setting == Obj([key |-> Str("theme"), value |-> Str("dark")])
      key == Obj([key |-> Str("theme")])
  IN
  IF m = "createEntity" THEN <<Event("entity", "entityCreated", entity)>>
  ELSE IF m = "updateEntity" THEN <<Event("entity", "entityUpdated", entity)>>
  ELSE IF m = "deleteEntity" THEN <<Event("entity", "entityDeleted", entity)>>
  ELSE IF m = "setSetting"
    THEN <<Event("settings", "settingsSaved", Obj([count |-> Num(1)])),
           Event("settings", "settingChanged", setting)>>
  ELSE IF m = "deleteSetting"
    THEN <<Event("settings", "settingsSaved", Obj([count |-> Num(0)])),
           Event("settings", "settingDeleted", key)>>
  ELSE IF m = "storeMetadata" THEN <<Event("metadata", "metadataStored", key)>>
  ELSE IF m = "updateMetadata"
    THEN <<Event("metadata", "metadataStored", key),
           Event("metadata", "metadataUpdated", key)>>
  ELSE IF m = "deleteMetadata" THEN <<Event("metadata", "metadataDeleted", key)>>
  ELSE <<>>

\* forwardEvents: the event names the adapter listens to on each repository
\* it was given, in the order of the repo.on calls
Registrations == <<"error", "initialized", "error", "*">>

CommonEvents == {"error", "initialized"}

\* what one listener of the adapter emits when the repository emits `name`
ListenerEmits(r, registered, name, payload) ==
  IF registered # name THEN <<>>
  ELSE IF registered \in CommonEvents THEN <<Event("adapter", name, payload)>>
  ELSE \* the listener of the event named '*' takes its first argument as
       \* the event name and finds no data
       IF payload \in CommonEvents THEN <<>>
       ELSE <<Event("adapter", payload, Obj([source |-> Str(r)]))>>

RECURSIVE ForwardFrom(_, _, _, _)
ForwardFrom(r, i, name, payload) ==
  IF i > Len(Registrations) THEN <<>>
  ELSE ListenerEmits(r, Registrations[i], name, payload)
         \o ForwardFrom(r, i + 1, name, payload)

\* the emissions of the adapter caused by one emission of a repository
Forward(e) ==
  IF e.by \in Repos /\ supplied[e.by]
    THEN ForwardFrom(e.by, 1, e.name, e.payload)
    ELSE <<>>

RECURSIVE WithForwards(_)
\* a repository's emissions, each followed by what the adapter emits on it
WithForwards(es) ==
  IF es = <<>> THEN <<>>
  ELSE <<Head(es)>> \o Forward(Head(es)) \o WithForwards(Tail(es))

\* what emit('error', payload) throws on an emitter without a listener for
\* it, the payload being no Error
UnhandledError == Rejected("Unhandled error.")

\* the emit call of event e throws: nothing listens to `error` on the
\* emitter, or the adapter's listener on the repository throws out of its
\* own emit
EmitThrows(e) ==
  /\ e.name = "error"
  /\ IF e.by \in Repos /\ supplied[e.by] THEN ~listening["adapter"]
     ELSE ~listening[e.by]

RECURSIVE Emissions(_)
\* the emit calls made for the emissions es of a repository, up to and
\* including the one that throws
Emissions(es) ==
  IF es = <<>> THEN <<>>
  ELSE IF EmitThrows(Head(es))
    THEN <<Head(es)>> \o (IF Forward(Head(es)) = <<>> THEN <<>>
                           ELSE <<Head(Forward(Head(es)))>>)
  ELSE <<Head(es)>> \o Forward(Head(es)) \o Emissions(Tail(es))

\* what the caller of a failed operation receives: the catch block emits
\* `error` and then rethrows the error it caught
Rethrown(r, m, error) ==
  IF EmitThrows(Event(r, "error", ErrorPayload(m, NoProps)))
    THEN UnhandledError
    ELSE error

\* the application subscribes to the `error` event of a component
Subscribe(c) ==
  /\ ~listening[c]
  /\ listening' = [listening EXCEPT ![c] = TRUE]
  /\ UNCHANGED <<fileVars, entityVars, settingsVars, docVars, adapterVars,
                 concVars, everThrew, metaVars, directVars, txVars>>

\* the application removes its listener
Unsubscribe(c) ==
  /\ listening[c]
  /\ listening' = [listening EXCEPT ![c] = FALSE]
  /\ UNCHANGED <<fileVars, entityVars, settingsVars, docVars, adapterVars,
                 concVars, everThrew, metaVars, directVars, txVars>>

NoAdapterCall ==
  [target |-> "none", method |-> "", res |-> Null, invoked |-> FALSE,
   io |-> FALSE, flagsBefore |-> [c \in Components |-> FALSE], failedAt |-> ""]

\* the record of a step: the flags are those at the start of the adapter's
\* initialize call while one is in flight
CallRecord(target, method, res, invoked, io, failedAt) ==
  [target |-> target, method |-> method, res |-> res, invoked |-> invoked,
   io |-> io,
   flagsBefore |-> IF apc = "idle" THEN isInitialized ELSE call.flagsBefore,
   failedAt |-> failedAt]

IndexOf(r) == CHOOSE j \in 1..Len(RepoOrder) : RepoOrder[j] = r

\* the position in RepoOrder of the first repository after position i that
\* the adapter was given; 0 when there is none
NextSupplied(i) ==
  IF \E j \in (i + 1)..Len(RepoOrder) : supplied[RepoOrder[j]]
    THEN CHOOSE j \in (i + 1)..Len(RepoOrder) :
           /\ supplied[RepoOrder[j]]
           /\ \A k \in (i + 1)..(j - 1) : ~supplied[RepoOrder[k]]
    ELSE 0

\* initialize(), from position i: call the next repository's initialize and
\* await it, or finish
AdapterInitFrom(i) ==
  IF NextSupplied(i) = 0
    THEN /\ isInitialized' = [isInitialized EXCEPT !["adapter"] = TRUE]
         /\ emitted' = <<Event("adapter", "initialized", Null)>>
         /\ apc' = "idle"
         /\ rpc' = [r \in Repos |-> IF r = apc THEN "idle" ELSE rpc[r]]
         /\ call' = CallRecord("adapter", "initialize", True, i > 0, FALSE, "")
    ELSE /\ apc' = RepoOrder[NextSupplied(i)]
         /\ rpc' = [r \in Repos |->
                      IF r = RepoOrder[NextSupplied(i)] THEN "running"
                      ELSE IF r = apc THEN "idle" ELSE rpc[r]]
         /\ emitted' = <<>>
         /\ call' = CallRecord("adapter", "initialize", <<"pending">>, TRUE, FALSE, "")
         /\ UNCHANGED isInitialized

\* StorageManagerAdapter.initialize() is called
AdapterInitialize ==
  /\ apc = "idle"
  /\ AdapterInitFrom(0)
  /\ UNCHANGED <<fileVars, entityVars, settingsVars, docVars, supplied, otherVars>>

\* the initialize() of a repository completes: the directory exists, the
\* settings repository has loaded its document, the flag is set
RepoInitResolve(r) ==
  /\ rpc[r] = "running"
  /\ LET ld == IF r = "settings" THEN LoadSettings(dest, bak)
               ELSE [null |-> cacheNull, settings |-> settings, file |-> dest,
                     bak |-> bak, events |-> <<>>]
     IN /\ cacheNull' = ld.null
        /\ settings' = ld.settings
        /\ dest' = ld.file
        /\ bak' = ld.bak
        /\ emitted' = WithForwards(ld.events \o <<Event(r, "initialized", Null)>>)
  /\ dirOk' = TRUE
  /\ isInitialized' = [isInitialized EXCEPT ![r] = TRUE]
  /\ rpc' = [rpc EXCEPT ![r] = "resolved"]
  /\ call' = CallRecord(r, "initialize", True, TRUE, TRUE, "")
  /\ UNCHANGED <<destId, tmp, tmpId, wpc, wreq, wfd, wprior, wres, rres, scn>>
  /\ UNCHANGED <<entityVars, sop, lastSet, checksum, vres, supplied, otherVars, apc>>

\* the initialize() of a repository fails on ensureDir: it emits `error`
\* and rejects
RepoInitReject(r) ==
  /\ rpc[r] = "running"
  /\ rpc' = [rpc EXCEPT ![r] = "rejected"]
  /\ emitted' = WithForwards(<<Event(r, "error", ErrorPayload("initialize", NoProps))>>)
  /\ call' = CallRecord(r, "initialize", Thrown, TRUE, TRUE, "")
  /\ UNCHANGED <<fileVars, entityVars, settingsVars, docVars>>
  /\ UNCHANGED <<isInitialized, supplied, otherVars, apc>>

\* a variant that sets the adapter's flag although a repository failed
AdapterInitContinueSetsFlag ==
  /\ apc # "idle"
  /\ rpc[apc] \in {"resolved", "rejected"}
  /\ IF rpc[apc] = "resolved"
       THEN AdapterInitFrom(IndexOf(apc))
       ELSE /\ emitted' = <<Event("adapter", "error",
                                  ErrorPayload("initialize", NoProps))>>
            /\ apc' = "idle"
            /\ rpc' = [rpc EXCEPT ![apc] = "idle"]
            /\ call' = CallRecord("adapter", "initialize", Thrown, TRUE, FALSE, apc)
            /\ isInitialized' = [isInitialized EXCEPT !["adapter"] = TRUE]
  /\ UNCHANGED <<fileVars, entityVars, settingsVars, docVars, supplied, otherVars>>

\* the adapter's initialize() resumes after the awaited repository: on
\* success it goes on, on failure it emits `error` and rethrows
AdapterInitContinue ==
  /\ apc # "idle"
  /\ rpc[apc] \in {"resolved", "rejected"}
  /\ IF rpc[apc] = "resolved"
       THEN AdapterInitFrom(IndexOf(apc))
       ELSE /\ emitted' = <<Event("adapter", "error",
                                  ErrorPayload("initialize", NoProps))>>
            /\ apc' = "idle"
            /\ rpc' = [rpc EXCEPT ![apc] = "idle"]
            /\ call' = CallRecord("adapter", "initialize", Thrown, TRUE, FALSE, apc)
            /\ UNCHANGED isInitialized
  /\ UNCHANGED <<fileVars, entityVars, settingsVars, docVars, supplied, otherVars>>

\* a variant without the isInitialized guard
RepoOutcomeUnguarded(r, m, how) ==
  IF how = "ok"
    THEN [res |-> True, io |-> TRUE, events |-> SuccessEvents(m)]
  ELSE IF how = "none"
    THEN [res |-> Null, io |-> TRUE, events |-> <<>>]
  ELSE [res |-> Rethrown(r, m, WriteFailed), io |-> TRUE,
        events |-> <<Event(r, "error", ErrorPayload(m, NoProps))>>]

\* a public operation m of repository r: rejected before anything else when
\* the repository is not initialized; else it succeeds with its events,
\* completes without a change, or fails on I/O with an `error` event
RepoOutcome(r, m, how) ==
  IF ~isInitialized[r]
    THEN [res |-> NotInitialized(r), io |-> FALSE, events |-> <<>>]
  ELSE IF how = "ok"
    THEN [res |-> True, io |-> TRUE, events |-> SuccessEvents(m)]
  ELSE IF how = "none"
    THEN [res |-> Null, io |-> TRUE, events |-> <<>>]
  ELSE [res |-> Rethrown(r, m, WriteFailed), io |-> TRUE,
        events |-> <<Event(r, "error", ErrorPayload(m, NoProps))>>]

\* a call of an operation on a repository
RepoCall(r, m, how) ==
  /\ m \in RepoMethods(r)
  /\ LET o == RepoOutcome(r, m, how) IN
       /\ call' = CallRecord(r, m, o.res, TRUE, o.io, "")
       /\ emitted' = Emissions(o.events)
  /\ UNCHANGED <<fileVars, entityVars, settingsVars, docVars>>
  /\ UNCHANGED <<isInitialized, supplied, otherVars, apc, rpc>>

\* a variant that looks for the repository before the adapter's own flag
AdapterGuardRepoFirst(m) ==
  IF ~supplied[RepoOf(m)] THEN "notAvailable"
  ELSE IF ~isInitialized["adapter"] THEN "notInitialized"
  ELSE "delegate"

\* the two checks at the head of every delegated method
AdapterGuard(m) ==
  IF ~isInitialized["adapter"] THEN "notInitialized"
  ELSE IF ~supplied[RepoOf(m)] THEN "notAvailable"
  ELSE "delegate"

\* a call of a delegated method on the adapter
AdapterCall(m, how) ==
  /\ m \in AdapterMethods
  /\ LET g == AdapterGuard(m)
         o == RepoOutcome(RepoOf(m), m, how)
     IN IF g = "notInitialized"
          THEN /\ call' = CallRecord("adapter", m, NotInitialized("adapter"),
                                     FALSE, FALSE, "")
               /\ emitted' = <<>>
        ELSE IF g = "notAvailable"
          THEN /\ call' = CallRecord("adapter", m, NotAvailable(RepoOf(m)),
                                     FALSE, FALSE, "")
               /\ emitted' = <<>>
        ELSE /\ call' = CallRecord("adapter", m, o.res, TRUE, o.io, "")
             /\ emitted' = Emissions(o.events)
  /\ UNCHANGED <<fileVars, entityVars, settingsVars, docVars>>
  /\ UNCHANGED <<isInitialized, supplied, otherVars, apc, rpc>>

(***************************************************************************)
(* EntityRepository.updateEntity, one step per await that lets another     *)
(* call run: the read of the existing record, then the store of the merge. *)
(* The callers update the same record entities/<type>/a.json.              *)
(***************************************************************************)
SharedId == "a"

\* the record createEntity(type, {id: 'a', title: 'A'}) stored at time 0
SharedRecord ==
  [createdAt |-> Ts(0), id |-> Str(SharedId), title |-> Str("A"),
   updatedAt |-> Ts(0)]

\* partials that touch different fields
ConcPartials == { [title |-> Str("B")], [note |-> Str("N")] }

NoUpdate ==
  [partial |-> NoProps, existing |-> Null, updated |-> Null, res |-> <<"none">>,
   events |-> <<>>]

\* updateEntity(type, 'a', partial) is called: control reaches the await of
\* getEntity
UpdateEntityBegin(p, partial) ==
  /\ upc[p] = "idle"
  /\ clock < MaxClock
  /\ upc' = [upc EXCEPT ![p] = "getEntity"]
  /\ ureq' = [ureq EXCEPT ![p] = [NoUpdate EXCEPT !.partial = partial,
                                                  !.res = <<"pending">>]]
  /\ UNCHANGED <<fileVars, entityVars, settingsVars, docVars, adapterVars, everThrew, restVars>>

\* getEntity resolves: null ends the call; else the merge is computed from
\* the record that was read
UpdateEntityRead(p) ==
  /\ upc[p] = "getEntity"
  /\ LET g == GetEntity(enabled, efile[SharedId], ebak[SharedId]) IN
       IF g.res[1] # "val"
         THEN /\ upc' = [upc EXCEPT ![p] = "idle"]
              /\ ureq' = [ureq EXCEPT ![p].res = g.res]
              /\ efile' = [efile EXCEPT ![SharedId] = g.file]
              /\ UNCHANGED clock
         ELSE /\ clock < MaxClock
              /\ upc' = [upc EXCEPT ![p] = "storeEntity"]
              /\ ureq' = [ureq EXCEPT
                            ![p].existing = g.res[2],
                            ![p].updated =
                              Obj(MergeUpdate(Props(g.res[2]), ureq[p].partial,
                                              SharedId, clock + 1))]
              /\ clock' = clock + 1
              /\ efile' = [efile EXCEPT ![SharedId] = g.file]
  /\ UNCHANGED <<enabled, ebak, genCount, last, created, ref, encUsed>>
  /\ UNCHANGED <<fileVars, settingsVars, docVars, adapterVars, everThrew, restVars>>

\* a variant that merges the partial into the record stored at that moment
UpdateEntityStoreCurrent(p) ==
  /\ upc[p] = "storeEntity"
  /\ LET cur == GetEntity(enabled, efile[SharedId], ebak[SharedId])
         stored == IF cur.res[1] = "val"
                     THEN Merge(Merge(Props(cur.res[2]), ureq[p].partial),
                                [id |-> Str(SharedId),
                                 updatedAt |-> Props(ureq[p].updated).updatedAt])
                     ELSE Props(ureq[p].updated)
         w == WriteJsonWhole(efile[SharedId], ebak[SharedId], stored)
     IN /\ efile' = [efile EXCEPT ![SharedId] = w.file]
        /\ ebak' = [ebak EXCEPT ![SharedId] = w.bak]
  /\ upc' = [upc EXCEPT ![p] = "idle"]
  /\ ureq' = [ureq EXCEPT ![p].res = Val(ureq[p].updated),
                          ![p].events = << <<"entityUpdated", SharedId,
                                             ureq[p].updated>> >>]
  /\ UNCHANGED <<enabled, clock, genCount, last, created, ref, encUsed>>
  /\ UNCHANGED <<fileVars, settingsVars, docVars, adapterVars, everThrew, restVars>>

\* storeEntity writes the merge; the event is emitted and the merge returned
UpdateEntityStore(p) ==
  /\ upc[p] = "storeEntity"
  /\ LET w == WriteJsonWhole(efile[SharedId], ebak[SharedId],
                             Props(ureq[p].updated))
     IN /\ efile' = [efile EXCEPT ![SharedId] = w.file]
        /\ ebak' = [ebak EXCEPT ![SharedId] = w.bak]
  /\ upc' = [upc EXCEPT ![p] = "idle"]
  /\ ureq' = [ureq EXCEPT ![p].res = Val(ureq[p].updated),
                          ![p].events = << <<"entityUpdated", SharedId,
                                             ureq[p].updated>> >>]
  /\ UNCHANGED <<enabled, clock, genCount, last, created, ref, encUsed>>
  /\ UNCHANGED <<fileVars, settingsVars, docVars, adapterVars, everThrew, restVars>>

(***************************************************************************)
(* EntityRepository.getAllEntities                                         *)
(***************************************************************************)
\* the methods of the FileUtils class
FileUtilsMethods ==
  {"calculateChecksum", "fileExists", "ensureDir", "readJsonFile",
   "writeJsonFile", "storeChecksum", "verifyFileIntegrity", "recoverFromBackup",
   "deleteFile", "logTransaction", "getTransactionLogs", "withTransaction"}

\* what the map over the entity files yields for one file: the parsed
\* content, decrypted only when it carries the whole-record marker
ReadListed(on, file, backup) ==
  LET data == ReadJson(file, backup, Null).val IN
  IF data = Null THEN TypeError      \* data._encrypted on null
  ELSE IF "_encrypted" \in DOMAIN Props(data) /\ Props(data)["_encrypted"] = True /\ on
    THEN LET w == DecryptData(on, Props(data)) IN
         IF w = Thrown THEN Thrown ELSE w[2]
  ELSE data

\* getAllEntities(type): the result, with the elements as a set
GetAllEntities(on, files, backups) ==
  IF "readDir" \notin FileUtilsMethods
    THEN TypeError                   \* this.fileUtils.readDir is not a function
  ELSE LET listed == {n \in DOMAIN files : files[n] # Absent}
           each == {ReadListed(on, files[n], backups[n]) : n \in listed}
       IN IF \E e \in each : e[1] = "throw" THEN Thrown ELSE Val(each)

GetAllEntitiesCall ==
  /\ last' = [op |-> "getAll", id |-> "", opts |-> NoOpts, arg |-> NoProps,
              res |-> GetAllEntities(enabled, efile, ebak),
              wrote |-> {}, removed |-> {},
              events |-> IF GetAllEntities(enabled, efile, ebak)[1] = "throw"
                           THEN << <<"error", "", Str("getAllEntities")>> >>
                           ELSE <<>>,
              before |-> Absent]
  /\ UNCHANGED <<enabled, efile, ebak, clock, genCount, created, ref, encUsed>>
  /\ UNCHANGED <<fileVars, settingsVars, docVars, adapterVars, otherVars>>

(***************************************************************************)
(* EntityRepository.deleteEntity, one step per awaited file-system call:   *)
(* fileExists in deleteEntity, then fileExists and fs.unlink in            *)
(* FileUtils.deleteFile.  Each caller deletes the record                   *)
(* entities/<type>/a.json once.                                            *)
(***************************************************************************)
DeleteReturns(res, events) ==
  [partial |-> NoProps, existing |-> Null, updated |-> Null, res |-> res,
   events |-> events]

\* deleteEntity(type, 'a') is called: control reaches the await of fileExists
DeleteEntityBegin(p) ==
  /\ upc[p] = "idle"
  /\ ureq[p] = NoUpdate
  /\ upc' = [upc EXCEPT ![p] = "fileExists"]
  /\ ureq' = [ureq EXCEPT ![p] = DeleteReturns(<<"pending">>, <<>>)]
  /\ UNCHANGED <<fileVars, entityVars, settingsVars, docVars, adapterVars, everThrew, restVars>>

\* if (!await this.fileUtils.fileExists(filePath)) return false
DeleteEntityExists(p) ==
  /\ upc[p] = "fileExists"
  /\ IF efile[SharedId] = Absent
       THEN /\ upc' = [upc EXCEPT ![p] = "done"]
            /\ ureq' = [ureq EXCEPT ![p] = DeleteReturns(False, <<>>)]
       ELSE /\ upc' = [upc EXCEPT ![p] = "deleteFile"]
            /\ UNCHANGED ureq
  /\ UNCHANGED <<fileVars, entityVars, settingsVars, docVars, adapterVars, everThrew, restVars>>

\* deleteFile: if (await this.fileExists(filePath)) ... else return false;
\* deleteEntity does not look at what deleteFile returns, emits and returns true
DeleteFileExists(p) ==
  /\ upc[p] = "deleteFile"
  /\ IF efile[SharedId] = Absent
       THEN /\ upc' = [upc EXCEPT ![p] = "done"]
            /\ ureq' = [ureq EXCEPT ![p] =
                          DeleteReturns(True, << <<"entityDeleted", SharedId, Null>> >>)]
       ELSE /\ upc' = [upc EXCEPT ![p] = "unlink"]
            /\ UNCHANGED ureq
  /\ UNCHANGED <<fileVars, entityVars, settingsVars, docVars, adapterVars, everThrew, restVars>>

\* deleteFile: await fs.unlink(filePath).  ENOENT when another call removed
\* the file: deleteFile throws, deleteEntity emits `error` and rethrows;
\* else the file is removed, the event emitted and true returned
DeleteFileUnlink(p) ==
  /\ upc[p] = "unlink"
  /\ IF efile[SharedId] = Absent
       THEN /\ ureq' = [ureq EXCEPT ![p] =
                          DeleteReturns(Thrown,
                                        << <<"error", SharedId, Str("deleteEntity")>> >>)]
            /\ UNCHANGED efile
       ELSE /\ efile' = [efile EXCEPT ![SharedId] = Absent]
            /\ ureq' = [ureq EXCEPT ![p] =
                          DeleteReturns(True, << <<"entityDeleted", SharedId, Null>> >>)]
  /\ upc' = [upc EXCEPT ![p] = "done"]
  /\ UNCHANGED <<enabled, ebak, clock, genCount, last, created, ref, encUsed>>
  /\ UNCHANGED <<fileVars, settingsVars, docVars, adapterVars, everThrew, restVars>>

(***************************************************************************)
(* MetadataRepository on an initialized repository, calls one at a time    *)
(***************************************************************************)
MetaKeys == {"k1", "k2"}
MetaValues == { [v |-> Str("1")], [v |-> Str("2"), updatedAt |-> Ts(0)] }
MetaUpdates == { [w |-> Str("3")] }
MetaDefaults == {Null, Obj(NoProps)}

NoMetaCall == [op |-> "none", key |-> "", arg |-> Null, res |-> Null,
               events |-> <<>>]

\* getMetadata(key, defaultValue): [res, file afterwards]
GetMetadata(file, backup, defaultValue) ==
  IF file = Absent THEN [res |-> defaultValue, file |-> file]
  ELSE LET r == ReadJson(file, backup, Null) IN [res |-> r.val, file |-> r.file]

\* storeMetadata: the object written, stamped when it carries no updatedAt
Stamped(metadata, now) ==
  IF "updatedAt" \in DOMAIN metadata THEN metadata
  ELSE Merge(metadata, [updatedAt |-> Ts(now)])

StoreMetadata(key, metadata) ==
  /\ clock < MaxClock
  /\ clock' = clock + 1
  /\ LET w == WriteJsonWhole(mfile[key], mbak[key], Stamped(metadata, clock + 1)) IN
       /\ mfile' = [mfile EXCEPT ![key] = w.file]
       /\ mbak' = [mbak EXCEPT ![key] = w.bak]
  /\ mlive' = mlive \cup {key}
  /\ mlast' = [op |-> "store", key |-> key, arg |-> Obj(metadata), res |-> True,
               events |-> << <<"metadataStored", key>> >>]
  /\ UNCHANGED <<enabled, efile, ebak, genCount, last, created, ref, encUsed>>
  /\ UNCHANGED <<fileVars, settingsVars, docVars, adapterVars, concVars, everThrew, directVars, txVars, listening>>

UpdateMetadata(key, updates) ==
  /\ clock < MaxClock
  /\ clock' = clock + 1
  /\ LET g == GetMetadata(mfile[key], mbak[key], Obj(NoProps))
         existing == IF g.res = Null THEN NoProps ELSE Props(g.res)
         updated == Merge(Merge(existing, updates), [updatedAt |-> Ts(clock + 1)])
         w == WriteJsonWhole(g.file, mbak[key], Stamped(updated, clock + 1))
     IN /\ mfile' = [mfile EXCEPT ![key] = w.file]
        /\ mbak' = [mbak EXCEPT ![key] = w.bak]
        /\ mlast' = [op |-> "update", key |-> key, arg |-> Obj(updates),
                     res |-> Val(Obj(updated)),
                     events |-> << <<"metadataStored", key>>,
                                   <<"metadataUpdated", key>> >>]
  /\ mlive' = mlive \cup {key}
  /\ UNCHANGED <<enabled, efile, ebak, genCount, last, created, ref, encUsed>>
  /\ UNCHANGED <<fileVars, settingsVars, docVars, adapterVars, concVars, everThrew, directVars, txVars, listening>>

DeleteMetadata(key) ==
  /\ IF mfile[key] = Absent
       THEN /\ mlast' = [op |-> "delete", key |-> key, arg |-> Null,
                         res |-> False, events |-> <<>>]
            /\ UNCHANGED <<mfile, mlive>>
       ELSE /\ mfile' = [mfile EXCEPT ![key] = Absent]
            /\ mlive' = mlive \ {key}
            /\ mlast' = [op |-> "delete", key |-> key, arg |-> Null,
                         res |-> True, events |-> << <<"metadataDeleted", key>> >>]
  /\ UNCHANGED mbak
  /\ UNCHANGED <<fileVars, entityVars, settingsVars, docVars, adapterVars>>
  /\ UNCHANGED <<concVars, everThrew, directVars, txVars, listening>>

GetMetadataCall(key, defaultValue) ==
  /\ LET g == GetMetadata(mfile[key], mbak[key], defaultValue) IN
       /\ mfile' = [mfile EXCEPT ![key] = g.file]
       /\ mlast' = [op |-> "get", key |-> key, arg |-> defaultValue,
                    res |-> Val(g.res), events |-> <<>>]
  /\ UNCHANGED <<mbak, mlive>>
  /\ UNCHANGED <<fileVars, entityVars, settingsVars, docVars, adapterVars>>
  /\ UNCHANGED <<concVars, everThrew, directVars, txVars, listening>>

\* listMetadataKeys(): the keys of the *.json files of the directory
ListMetadataKeys(files) ==
  IF "readDir" \notin FileUtilsMethods
    THEN TypeError                   \* this.fileUtils.readDir is not a function
  ELSE Val({k \in DOMAIN files : files[k] # Absent})

ListMetadataKeysCall ==
  /\ mlast' = [op |-> "list", key |-> "", arg |-> Null,
               res |-> ListMetadataKeys(mfile),
               events |-> IF ListMetadataKeys(mfile)[1] = "throw"
                            THEN << <<"error", "listMetadataKeys">> >>
                            ELSE <<>>]
  /\ UNCHANGED <<mfile, mbak, mlive>>
  /\ UNCHANGED <<fileVars, entityVars, settingsVars, docVars, adapterVars>>
  /\ UNCHANGED <<concVars, everThrew, directVars, txVars, listening>>
(***************************************************************************)
(* FileUtils transaction log: logTransaction, withTransaction and          *)
(* getTransactionLogs on the log directory of one file                     *)
(***************************************************************************)
MaxTxClock == 2
MaxTx == 2

Operations == {"save", "load"}
ActionOutcomes == {Val(Str("result")), Rejected("Test error")}

NoTransaction ==
  [operation |-> "", outcome |-> Null, logged |-> <<>>, count |-> 0]

\* `${timestamp}-${operation}-${path.basename(filePath)}.log`
LogFileName(timestamp, operation) == <<timestamp, operation>>

\* the directory after logTransaction(operation, filePath, data) at time now
LogTransaction(dir, operation, data, now) ==
  LET logEntry == [operation |-> operation, timestamp |-> now,
                   data |-> IF data = Null THEN Null
                            ELSE Str(Stringify(data, FALSE))]
  IN (LogFileName(now, operation) :> logEntry) @@ dir

\* every order in which fs.readdir may list the names S
RECURSIVE Listings(_)
Listings(S) ==
  IF S = {} THEN {<<>>}
  ELSE UNION {{<<x>> \o l : l \in Listings(S \ {x})} : x \in S}

\* e placed behind every entry of sorted whose timestamp is not later
InsertByTimestamp(sorted, e) ==
  LET before == {i \in 1..Len(sorted) : sorted[i].timestamp <= e.timestamp}
      n == Cardinality(before)
  IN SubSeq(sorted, 1, n) \o <<e>> \o SubSeq(sorted, n + 1, Len(sorted))

\* logs.sort((a, b) => new Date(a.timestamp) - new Date(b.timestamp)), stable
RECURSIVE SortByTimestamp(_)
SortByTimestamp(logs) ==
  IF logs = <<>> THEN <<>>
  ELSE InsertByTimestamp(SortByTimestamp(SubSeq(logs, 1, Len(logs) - 1)),
                         logs[Len(logs)])

\* getTransactionLogs(dirPath) when readdir lists the files as listing
GetTransactionLogs(dir, listing) ==
  SortByTimestamp([i \in 1..Len(listing) |-> dir[listing[i]]])

txFrame ==
  <<fileVars, entityVars, settingsVars, docVars, adapterVars, concVars,
    everThrew, metaVars, directVars, listening>>

\* withTransaction up to the call of action()
WithTransactionBegin(operation, outcome) ==
  /\ tpc = "idle"
  /\ treq.count < MaxTx
  /\ tdir' = LogTransaction(tdir, operation \o "_start", Null, tnow)
  /\ treq' = [operation |-> operation, outcome |-> outcome,
              logged |-> << [operation |-> operation \o "_start",
                             timestamp |-> tnow] >>,
              count |-> treq.count + 1]
  /\ tpc' = "action"
  /\ tres' = <<"none">>
  /\ UNCHANGED <<tnow, tlogs>>
  /\ UNCHANGED txFrame

\* withTransaction from the settling of action() to its return or throw
WithTransactionSettle ==
  /\ tpc = "action"
  /\ LET ok == treq.outcome[1] = "val"
         suffix == IF ok THEN "_complete" ELSE "_failed"
         data == IF ok THEN Null ELSE Obj([error |-> Str(treq.outcome[2])])
     IN /\ tdir' = LogTransaction(tdir, treq.operation \o suffix, data, tnow)
        /\ treq' = [treq EXCEPT !.logged =
                      Append(@, [operation |-> treq.operation \o suffix,
                                 timestamp |-> tnow])]
  /\ tres' = treq.outcome
  /\ tpc' = "idle"
  /\ UNCHANGED <<tnow, tlogs>>
  /\ UNCHANGED txFrame

\* a millisecond passes
Tick ==
  /\ tnow < MaxTxClock
  /\ tnow' = tnow + 1
  /\ UNCHANGED <<tdir, tpc, treq, tres, tlogs>>
  /\ UNCHANGED txFrame

GetTransactionLogsCall ==
  /\ \E listing \in Listings(DOMAIN tdir) :
       tlogs' = GetTransactionLogs(tdir, listing)
  /\ UNCHANGED <<tdir, tnow, tpc, treq, tres>>
  /\ UNCHANGED txFrame


(***************************************************************************)
(* Initial states                                                          *)
(***************************************************************************)
InitFile ==
  /\ dest = Absent /\ destId = 0
  /\ bak = Absent
  /\ tmp = Absent /\ tmpId = 0
  /\ dirOk = FALSE
  /\ wpc = [p \in Procs |-> "idle"]
  /\ wreq = [p \in Procs |-> NoReq]
  /\ wfd = [p \in Procs |-> 0]
  /\ wprior = [p \in Procs |-> Absent]
  /\ wres = [p \in Procs |-> "none"]
  /\ rres = <<"none">>
  /\ scn = <<"none">>

\* the store of a repository right after construction and initialize()
InitEntityStore ==
  /\ efile = [n \in FileNames |-> Absent]
  /\ ebak = [n \in FileNames |-> Absent]
  /\ clock = 0
  /\ genCount = 0
  /\ last = NoCall
  /\ created = NoCreate
  /\ ref = [n \in FileNames |-> Null]
  /\ encUsed = FALSE

\* options.enabled !== false, with a secret key configured
InitEntity ==
  /\ enabled \in BOOLEAN
  /\ InitEntityStore

InitSettingsIdle ==
  /\ settings = <<>>
  /\ sop = [p \in Procs |-> NoSettingCall]
  /\ lastSet = NoChange

\* no checksum was stored; the settings cache is loaded
InitDocIdle ==
  /\ cacheNull = FALSE
  /\ checksum = Absent
  /\ vres = <<"none">>

\* no updateEntity call is in flight, no write has thrown, no metadata is stored
InitOtherQuiet ==
  /\ upc = [p \in Procs |-> "idle"]
  /\ ureq = [p \in Procs |-> NoUpdate]
  /\ everThrew = FALSE
  /\ mfile = [k \in MetaKeys |-> Absent]
  /\ mbak = [k \in MetaKeys |-> Absent]
  /\ mlive = {}
  /\ mlast = NoMetaCall
  /\ dfile = [n \in FileNames |-> Absent]
  /\ dbak = [n \in FileNames |-> Absent]
  /\ dres = Null
  /\ tdir = <<>>
  /\ tnow = 0
  /\ tpc = "idle"
  /\ treq = NoTransaction
  /\ tres = <<"none">>
  /\ tlogs = <<>>

\* the same, and the application listens to the `error` event of every component
InitOtherIdle ==
  /\ InitOtherQuiet
  /\ listening = [c \in Components |-> TRUE]

\* the repositories are initialized and no adapter is in use
InitRepositoriesReady ==
  /\ isInitialized = [c \in Components |-> c \in Repos]
  /\ supplied = [r \in Repos |-> FALSE]
  /\ apc = "idle"
  /\ rpc = [r \in Repos |-> "idle"]
  /\ call = NoSettingsCall
  /\ emitted = <<>>

\* after SettingsRepository.initialize() on an empty storage directory:
\* loadSettings found no document, set the cache to [] and saved it
InitSettings ==
  /\ dest = Stringify(Arr(<<>>), TRUE) /\ destId = 1
  /\ bak = Absent
  /\ tmp = Absent /\ tmpId = 0
  /\ dirOk = TRUE
  /\ wpc = [p \in Procs |-> "idle"]
  /\ wreq = [p \in Procs |-> NoReq]
  /\ wfd = [p \in Procs |-> 0]
  /\ wprior = [p \in Procs |-> Absent]
  /\ wres = [p \in Procs |-> "none"]
  /\ rres = <<"none">>
  /\ scn = <<"none">>
  /\ InitSettingsIdle

(***************************************************************************)
(* File-level specification: one caller issues writeJsonFile and           *)
(* readJsonFile calls one at a time; the process may die and be restarted  *)
(***************************************************************************)
NextFile ==
  \/ \E d \in FileData, cb \in BOOLEAN, pp \in BOOLEAN : WriteStart(P1, d, cb, pp)
  \/ EnsureDir(P1)
  \/ ProbeDest(P1)
  \/ CopyBakBegin(P1)
  \/ CopyBakEnd(P1)
  \/ WriteTmpBegin(P1)
  \/ WriteTmpEnd(P1)
  \/ WriteTmpFail(P1)
  \/ Rename(P1)
  \/ Cleanup(P1)
  \/ Crash
  \/ Restart
  \/ Corrupt
  \/ ReadJsonFile(Null)

InitSpecFile ==
  InitFile /\ enabled = TRUE /\ InitEntityStore /\ InitSettingsIdle
    /\ InitDocIdle /\ InitRepositoriesReady /\ InitOtherIdle

SpecFile == InitSpecFile /\ [][NextFile]_vars

(***************************************************************************)
(* Entity repository specification: calls are issued one at a time on an   *)
(* initialized repository                                                  *)
(***************************************************************************)
NextEntity ==
  \/ \E d \in CreateInputs, o \in OptionSet, s \in SaltSet, i \in IvSet :
       CreateEntity(d, o, s, i)
  \/ \E id \in CallIds : GetEntityCall(id)
  \/ \E id \in CallIds, p \in Partials, o \in OptionSet, s \in SaltSet, i \in IvSet :
       UpdateEntity(id, p, o, s, i)
  \/ \E id \in CallIds : DeleteEntity(id)
  \/ GetAllEntitiesCall

InitSpecEntity ==
  InitEntity /\ InitFile /\ InitSettingsIdle /\ InitDocIdle /\ InitRepositoriesReady
    /\ InitOtherIdle

SpecEntity == InitSpecEntity /\ [][NextEntity]_vars

(***************************************************************************)
(* Settings repository specification: the callers issue setSetting and     *)
(* deleteSetting concurrently; their steps interleave at every await       *)
(***************************************************************************)
NextSettings ==
  \/ \E p \in Procs, k \in SettingKeys, v \in SettingValues : SetSetting(p, k, v)
  \/ \E p \in Procs, k \in SettingKeys : DeleteSetting(p, k)
  \/ \E p \in Procs : SaveEnsureDir(p)
  \/ \E p \in Procs : EnsureDir(p)
  \/ \E p \in Procs : ProbeDest(p)
  \/ \E p \in Procs : CopyBakBegin(p)
  \/ \E p \in Procs : CopyBakEnd(p)
  \/ \E p \in Procs : WriteTmpBegin(p)
  \/ \E p \in Procs : WriteTmpEnd(p)
  \/ \E p \in Procs : WriteTmpFail(p)
  \/ \E p \in Procs : Rename(p)
  \/ \E p \in Procs : Cleanup(p)

InitSpecSettings ==
  InitSettings /\ enabled = TRUE /\ InitEntityStore /\ InitDocIdle
    /\ InitRepositoriesReady /\ InitOtherIdle

SpecSettings == InitSpecSettings /\ [][NextSettings]_vars


(***************************************************************************)
(* Settings repository, calls issued one at a time, from construction:     *)
(* initialize, the public operations with I/O failures of the save, a      *)
(* restart of the application and corruption of the document               *)
(***************************************************************************)
InitSpecSettingsCalls ==
  /\ InitFile
  /\ enabled \in BOOLEAN
  /\ InitEntityStore
  /\ InitSettingsIdle
  /\ cacheNull = TRUE
  /\ checksum = Absent
  /\ vres = <<"none">>
  /\ isInitialized = [c \in Components |-> FALSE]
  /\ supplied = [r \in Repos |-> FALSE]
  /\ apc = "idle"
  /\ rpc = [r \in Repos |-> "idle"]
  /\ call = NoSettingsCall
  /\ emitted = <<>>
  /\ InitOtherIdle

NextSettingsCalls ==
  \/ SettingsInitialize
  \/ SettingsRestart
  \/ CorruptSettings
  \/ InvalidateCache
  \/ \E k \in SettingKeys, v \in SettingValues, e \in BOOLEAN, s \in SaltSet,
        i \in IvSet, io \in {"ok", "fail"} : SetSettingCall(k, v, e, s, i, io)
  \/ \E k \in SettingKeys, d \in DefaultSet : GetSettingCall(k, d)
  \/ \E k \in SettingKeys, io \in {"ok", "fail"} : DeleteSettingCall(k, io)
  \/ GetAllSettingsCall

SpecSettingsCalls == InitSpecSettingsCalls /\ [][NextSettingsCalls]_vars

(***************************************************************************)
(* File-level calls issued one at a time, with foreign writes in between   *)
(***************************************************************************)
InitSpecFileCalls ==
  InitFile /\ enabled = TRUE /\ InitEntityStore /\ InitSettingsIdle
    /\ InitDocIdle /\ InitRepositoriesReady /\ InitOtherIdle

NextFileCalls ==
  \/ \E d \in FileData, cb \in BOOLEAN, sc \in BOOLEAN : WriteJsonFileCall(d, cb, sc)
  \/ \E t \in ForeignTexts : ForeignWrite(t)
  \/ ReadJsonFileCall
  \/ VerifyFileIntegrityCall

SpecFileCalls == InitSpecFileCalls /\ [][NextFileCalls]_vars

(***************************************************************************)
(* The adapter with any subset of the repositories, from construction:     *)
(* initialize() step by step, and calls on the adapter and directly on the *)
(* repositories at any moment                                              *)
(***************************************************************************)
InitSpecAdapter ==
  /\ InitFile
  /\ enabled = TRUE
  /\ InitEntityStore
  /\ InitSettingsIdle
  /\ cacheNull = TRUE
  /\ checksum = Absent
  /\ vres = <<"none">>
  /\ isInitialized = [c \in Components |-> FALSE]
  /\ supplied \in [Repos -> BOOLEAN]
  /\ apc = "idle"
  /\ rpc = [r \in Repos |-> "idle"]
  /\ call = NoAdapterCall
  /\ emitted = <<>>
  /\ InitOtherIdle

NextAdapter ==
  \/ AdapterInitialize
  \/ \E r \in Repos : RepoInitResolve(r)
  \/ \E r \in Repos : RepoInitReject(r)
  \/ AdapterInitContinue
  \/ \E m \in AdapterMethods, how \in {"ok", "none", "fail"} : AdapterCall(m, how)
  \/ \E r \in Repos, m \in AdapterMethods, how \in {"ok", "none", "fail"} :
       RepoCall(r, m, how)

SpecAdapter == InitSpecAdapter /\ [][NextAdapter]_vars


(***************************************************************************)
(* Two callers update the record `a` concurrently; a third party reads it  *)
(***************************************************************************)
InitSpecEntityConc ==
  /\ InitFile
  /\ enabled = TRUE
  /\ efile = [n \in FileNames |->
               IF n = SharedId THEN Stringify(Obj(SharedRecord), TRUE) ELSE Absent]
  /\ ebak = [n \in FileNames |-> Absent]
  /\ clock = 0
  /\ genCount = 0
  /\ last = NoCall
  /\ created = NoCreate
  /\ ref = [n \in FileNames |-> IF n = SharedId THEN Obj(SharedRecord) ELSE Null]
  /\ encUsed = FALSE
  /\ InitSettingsIdle
  /\ InitDocIdle
  /\ InitRepositoriesReady
  /\ InitOtherIdle

NextEntityConc ==
  \/ \E p \in Procs, d \in ConcPartials : UpdateEntityBegin(p, d)
  \/ \E p \in Procs : UpdateEntityRead(p)
  \/ \E p \in Procs : UpdateEntityStore(p)
  \/ GetEntityCall(SharedId)

SpecEntityConc == InitSpecEntityConc /\ [][NextEntityConc]_vars

(***************************************************************************)
(* File-level specification with two callers: their writeJsonFile calls on *)
(* the same path interleave at every await                                 *)
(***************************************************************************)
InitSpecFileWriters ==
  InitFile /\ enabled = TRUE /\ InitEntityStore /\ InitSettingsIdle
    /\ InitDocIdle /\ InitRepositoriesReady /\ InitOtherIdle

NextFileWriters ==
  \/ \E p \in Procs, d \in FileData, cb \in BOOLEAN : WriteStart(p, d, cb, TRUE)
  \/ \E p \in Procs : EnsureDir(p)
  \/ \E p \in Procs : ProbeDest(p)
  \/ \E p \in Procs : CopyBakBegin(p)
  \/ \E p \in Procs : CopyBakEnd(p)
  \/ \E p \in Procs : WriteTmpBegin(p)
  \/ \E p \in Procs : WriteTmpEnd(p)
  \/ \E p \in Procs : WriteTmpFail(p)
  \/ \E p \in Procs : Rename(p)
  \/ \E p \in Procs : Cleanup(p)

SpecFileWriters == InitSpecFileWriters /\ [][NextFileWriters]_vars


(***************************************************************************)
(* Metadata repository specification: calls issued one at a time on an     *)
(* initialized repository                                                  *)
(***************************************************************************)
InitSpecMetadata ==
  InitFile /\ enabled = TRUE /\ InitEntityStore /\ InitSettingsIdle
    /\ InitDocIdle /\ InitRepositoriesReady /\ InitOtherIdle

NextMetadata ==
  \/ \E k \in MetaKeys, m \in MetaValues : StoreMetadata(k, m)
  \/ \E k \in MetaKeys, u \in MetaUpdates : UpdateMetadata(k, u)
  \/ \E k \in MetaKeys : DeleteMetadata(k)
  \/ \E k \in MetaKeys, d \in MetaDefaults : GetMetadataCall(k, d)
  \/ ListMetadataKeysCall

SpecMetadata == InitSpecMetadata /\ [][NextMetadata]_vars


(***************************************************************************)
(* Transaction log specification: one caller runs withTransaction calls    *)
(* one after the other and reads the log at any time                       *)
(***************************************************************************)
NextTx ==
  \/ \E o \in Operations, r \in ActionOutcomes : WithTransactionBegin(o, r)
  \/ WithTransactionSettle
  \/ Tick
  \/ GetTransactionLogsCall

InitSpecTx ==
  InitFile /\ enabled = TRUE /\ InitEntityStore /\ InitSettingsIdle
    /\ InitDocIdle /\ InitRepositoriesReady /\ InitOtherIdle

SpecTx == InitSpecTx /\ [][NextTx]_vars

(***************************************************************************)
(* Two callers write the same path with the default options, as            *)
(* saveSettings and storeEntity do; every file-system call succeeds unless *)
(* the other caller's steps make it fail                                   *)
(***************************************************************************)
InitSpecFileRace ==
  InitFile /\ enabled = TRUE /\ InitEntityStore /\ InitSettingsIdle
    /\ InitDocIdle /\ InitRepositoriesReady /\ InitOtherIdle

NextFileRace ==
  \/ \E p \in Procs, d \in FileData : WriteStart(p, d, TRUE, TRUE)
  \/ \E p \in Procs : EnsureDir(p)
  \/ \E p \in Procs : ProbeDest(p)
  \/ \E p \in Procs : CopyBakBegin(p)
  \/ \E p \in Procs : CopyBakEnd(p)
  \/ \E p \in Procs : WriteTmpBegin(p)
  \/ \E p \in Procs : WriteTmpEnd(p)
  \/ \E p \in Procs : Rename(p)
  \/ \E p \in Procs : Cleanup(p)

SpecFileRace == InitSpecFileRace /\ [][NextFileRace]_vars

(***************************************************************************)
(* Two callers delete the stored record `a` concurrently, each once; a     *)
(* third party reads it                                                    *)
(***************************************************************************)
InitSpecEntityDelete ==
  /\ InitFile
  /\ enabled \in BOOLEAN
  /\ efile = [n \in FileNames |->
               IF n = SharedId THEN Stringify(Obj(SharedRecord), TRUE) ELSE Absent]
  /\ ebak = [n \in FileNames |-> Absent]
  /\ clock = 0
  /\ genCount = 0
  /\ last = NoCall
  /\ created = NoCreate
  /\ ref = [n \in FileNames |-> IF n = SharedId THEN Obj(SharedRecord) ELSE Null]
  /\ encUsed = FALSE
  /\ InitSettingsIdle
  /\ InitDocIdle
  /\ InitRepositoriesReady
  /\ InitOtherIdle

NextEntityDelete ==
  \/ \E p \in Procs : DeleteEntityBegin(p)
  \/ \E p \in Procs : DeleteEntityExists(p)
  \/ \E p \in Procs : DeleteFileExists(p)
  \/ \E p \in Procs : DeleteFileUnlink(p)
  \/ GetEntityCall(SharedId)

SpecEntityDelete == InitSpecEntityDelete /\ [][NextEntityDelete]_vars

(***************************************************************************)
(* Operations fail on initialized repositories, called directly or through *)
(* the adapter, while the application subscribes to and unsubscribes from  *)
(* the `error` events                                                      *)
(***************************************************************************)
InitSpecErrorEvents ==
  /\ InitFile
  /\ enabled = TRUE
  /\ InitEntityStore
  /\ InitSettingsIdle
  /\ InitDocIdle
  /\ isInitialized = [c \in Components |-> TRUE]
  /\ supplied \in [Repos -> BOOLEAN]
  /\ apc = "idle"
  /\ rpc = [r \in Repos |-> "idle"]
  /\ call = NoAdapterCall
  /\ emitted = <<>>
  /\ InitOtherQuiet
  /\ listening \in [Components -> BOOLEAN]

NextErrorEvents ==
  \/ \E c \in Components : Subscribe(c)
  \/ \E c \in Components : Unsubscribe(c)
  \/ \E m \in AdapterMethods, how \in {"ok", "none", "fail"} : AdapterCall(m, how)
  \/ \E r \in Repos, m \in AdapterMethods, how \in {"ok", "none", "fail"} :
       RepoCall(r, m, how)

SpecErrorEvents == InitSpecErrorEvents /\ [][NextErrorEvents]_vars
(***************************************************************************)
(* C1: while a writeJsonFile call is in flight or has been cut short by a  *)
(* crash, the destination holds its complete prior content (absent if it   *)
(* did not exist) or the complete serialization of the new data - never a  *)
(* half-written file.                                                      *)
(***************************************************************************)
AtomicWrite ==
  wpc[P1] # "idle" =>
    /\ dest # Partial
    /\ dest \in {wprior[P1], Stringify(wreq[P1].data, wreq[P1].prettyPrint)}

\* the process died after the temp file was opened and before the rename,
\* over an existing document
AtomicWriteWitness ==
  /\ wpc[P1] = "crashed"
  /\ tmp = Partial
  /\ wprior[P1] # Absent
  /\ dest = wprior[P1]

(***************************************************************************)
(* C2: after a successful write of A directly followed by a successful     *)
(* write of B with createBackup, <path>.bak holds A's serialization; if    *)
(* the destination is then corrupted, readJsonFile returns A and the       *)
(* destination holds A's serialization again.                              *)
(***************************************************************************)
BackupRoundTrip ==
  /\ scn[1] = "WW" => (bak = scn[2] /\ dest = scn[3])
  /\ scn[1] = "WWCR" => (rres = JsonParse(scn[2])[2] /\ dest = scn[2])

BackupRoundTripWitness ==
  /\ scn[1] = "WWCR"
  /\ JsonParse(scn[2])[2] # JsonParse(scn[3])[2]
  /\ rres = JsonParse(scn[2])[2]
  /\ dest = scn[2]

\* the id stored in an entity file, Null when the record carries none
StoredId(text) ==
  IF JsonParse(text)[1] = "ok" /\ "id" \in DOMAIN Props(JsonParse(text)[2])
    THEN Props(JsonParse(text)[2]).id
    ELSE Null

\* the properties of a stored record, none when the file is absent
StoredProps(text) ==
  IF JsonParse(text)[1] = "ok" THEN Props(JsonParse(text)[2]) ELSE NoProps

IsCipher(v) == v[1] = "ct"

(***************************************************************************)
(* C3: with the encryption service enabled, getEntity(type, id) right      *)
(* after createEntity(type, D, {encryptFields: F}) returns the record      *)
(* createEntity returned: every field of F holds its original value and no *)
(* <field>_iv / <field>_encrypted marker remains.                          *)
(***************************************************************************)
FieldEncryptionRoundTrip ==
  (/\ last.op = "get"
   /\ enabled
   /\ created.opts[1] = "fields"
   /\ created.id = last.id)
  => last.res = Val(created.data)

(***************************************************************************)
(* C4: with the encryption service enabled, getEntity(type, id) right      *)
(* after createEntity(type, D, {encrypt: true}) finds the record under the *)
(* id createEntity returned and returns the created record itself.         *)
(***************************************************************************)
WholeRecordRoundTrip ==
  (/\ last.op = "get"
   /\ enabled
   /\ created.opts[1] = "encrypt"
   /\ created.id = last.id)
  => last.res = Val(created.data)

(***************************************************************************)
(* C5: every createEntity or updateEntity that returns an entity wrote     *)
(* exactly the file <id>.json, id being the id of the returned entity.     *)
(***************************************************************************)
EntityFileNamedById ==
  (last.op \in {"create", "update"} /\ last.res[1] = "val")
  => last.wrote = {Props(last.res[2]).id[2]}

(***************************************************************************)
(* C6: updateEntity(type, id, partial) returns a record whose id is the id *)
(* argument, whatever id the partial carries, and a record stored under    *)
(* <id>.json with that id still carries it after the call.                 *)
(***************************************************************************)
EntityIdImmutable ==
  /\ (last.op = "update" /\ last.res[1] = "val")
       => Props(last.res[2]).id = Str(last.id)
  /\ (last.op = "update" /\ last.opts = NoOpts
        /\ StoredId(last.before) = Str(last.id))
       => StoredId(efile[last.id]) = Str(last.id)

EntityIdImmutableWitness ==
  /\ last.op = "update"
  /\ last.opts = NoOpts
  /\ "id" \in DOMAIN last.arg
  /\ last.arg.id # Str(last.id)
  /\ last.res[1] = "val"
  /\ StoredId(last.before) = Str(last.id)
  /\ StoredId(efile[last.id]) = Str(last.id)

MissingRecordSemantics ==
  [][ (last'.op \in {"get", "update", "delete"} /\ efile[last'.id] = Absent
         /\ last'.before = Absent)
      => /\ last'.res = (IF last'.op = "delete" THEN False ELSE Null)
         /\ last'.events = <<>>
         /\ efile' = efile
         /\ ebak' = ebak ]_vars

MissingRecordWitness ==
  /\ last.op = "update"
  /\ last.before = Absent
  /\ last.res = Null
  /\ \E n \in FileNames : efile[n] # Absent

(***************************************************************************)
(* C9: with the encryption service enabled, every property of an entity    *)
(* file that held ciphertext before an updateEntity on that entity still   *)
(* holds ciphertext after it.                                              *)
(***************************************************************************)
DecryptedNeverPersisted ==
  (last.op = "update" /\ enabled) =>
    \A f \in DOMAIN StoredProps(last.before) :
      IsCipher(StoredProps(last.before)[f]) =>
        /\ f \in DOMAIN StoredProps(efile[last.id])
        /\ IsCipher(StoredProps(efile[last.id])[f])

(***************************************************************************)
(* C23: an updateEntity call that finds the record returns a record whose  *)
(* createdAt is the one the stored record had before the call, whatever    *)
(* the partial carries, and whose updatedAt is the time of the call.       *)
(***************************************************************************)
CreatedAtPreserved ==
  (/\ last.op = "update"
   /\ last.res[1] = "val"
   /\ JsonParse(last.before)[1] = "ok"
   /\ "createdAt" \in DOMAIN Props(JsonParse(last.before)[2]))
  => /\ Props(last.res[2]).createdAt = Props(JsonParse(last.before)[2]).createdAt
     /\ Props(last.res[2]).updatedAt = Ts(clock)

\* what getEntity returns for each stored record of the type
EachByGetEntity ==
  {GetEntity(enabled, efile[n], ebak[n]).res[2] :
     n \in {m \in FileNames : efile[m] # Absent}}

(***************************************************************************)
(* C26: getAllEntities returns one element for every stored entity of the  *)
(* type, each equal to what getEntity returns for it.                      *)
(***************************************************************************)
GetAllMatchesGetEntity ==
  (/\ last.op = "getAll"
   /\ \A n \in FileNames : GetEntity(enabled, efile[n], ebak[n]).res[1] # "throw")
  => (last.res[1] = "val" /\ last.res[2] = EachByGetEntity)

DomainEventNames == {"entityCreated", "entityUpdated", "entityDeleted"}

\* the domain events of the last call, in the order they were emitted
DomainEventsOfLast ==
  SelectSeq(last.events, LAMBDA e : e[1] \in DomainEventNames)

\* the files the last call wrote hold a complete document
WritesComplete ==
  /\ last.wrote # {}
  /\ \A n \in last.wrote : efile[n][1] = "json"

CreateKeepsExisting ==
  (last.op = "create" /\ last.before # Absent) => efile[last.id] = last.before

\* no two records of the sequence carry the same key
UniqueKeys(s) ==
  \A i, j \in 1..Len(s) : Props(s[i]).key = Props(s[j]).key => i = j

\* the records of the sequence that carry the key
RecordsOf(s, key) == {i \in 1..Len(s) : Props(s[i]).key = Str(key)}

(***************************************************************************)
(* C10: under every interleaving of concurrent setSetting and              *)
(* deleteSetting calls the in-memory settings sequence holds at most one   *)
(* record per key, and so does the persisted document whenever it is a     *)
(* JSON document; after setSetting(k, v), also when it repeats the previous *)
(* call, exactly one record has key k and its value is v.                   *)
(***************************************************************************)
SettingsKeysUnique ==
  /\ UniqueKeys(settings)
  /\ JsonParse(dest)[1] = "ok" => UniqueKeys(JsonParse(dest)[2][2])
  /\ lastSet.op = "set" =>
       /\ Cardinality(RecordsOf(settings, lastSet.key)) = 1
       /\ \A i \in RecordsOf(settings, lastSet.key) :
            Props(settings[i]).value = Str(lastSet.value)

\* setSetting(k, v) was issued twice in a row, the second while the first
\* was still being saved, and both calls are over
SettingsKeysUniqueWitness ==
  /\ lastSet.twice
  /\ lastSet.overlap
  /\ \A p \in Procs : wpc[p] = "idle" /\ sop[p].op = "set"
  /\ JsonParse(dest)[1] = "ok"
  /\ Cardinality(RecordsOf(JsonParse(dest)[2][2], lastSet.key)) = 1

\* no settings call is in flight and none has failed
SettingsQuiescent ==
  /\ \A p \in Procs : wpc[p] = "idle"
  /\ ~everThrew

RawSetting(text, key) ==
  IF JsonParse(text)[1] # "ok" THEN Null
  ELSE FindSetting(JsonParse(text)[2][2], key)

(***************************************************************************)
(* C11: with the encryption service enabled, after a successful            *)
(* setSetting(k, v, {encrypted: true}) the record of k in the raw          *)
(* document holds a ciphertext and an iv and not the plaintext v, and a    *)
(* getSetting(k) that directly follows returns v.                          *)
(***************************************************************************)
EncryptedSettingRoundTrip ==
  /\ (/\ call.op = "setSetting" /\ call.encrypted /\ enabled /\ call.res = True)
       => /\ RawSetting(dest, call.key) # Null
          /\ IsCipher(Props(RawSetting(dest, call.key)).value)
          /\ "iv" \in DOMAIN Props(RawSetting(dest, call.key))
          /\ Props(RawSetting(dest, call.key)).value # Str(call.value)
  /\ (/\ call.op = "getSetting" /\ enabled
      /\ call.prev.op = "setSetting" /\ call.prev.key = call.key
      /\ call.prev.encrypted /\ call.prev.res = True)
       => call.res = Val(Str(call.prev.value))

\* the payloads of the events of that name emitted by the repository, in order
PayloadsOf(by, name) ==
  LET idx == {i \in 1..Len(emitted) : emitted[i].by = by /\ emitted[i].name = name}
  IN [n \in idx |-> emitted[n].payload]

(***************************************************************************)
(* C12: a successful setSetting(key, value) emits exactly one              *)
(* settingChanged event, whose payload carries the key, the new value and, *)
(* as oldValue, the value the key had before the call.                     *)
(***************************************************************************)
SettingChangedCarriesOldValue ==
  (call.op = "setSetting" /\ call.res = True) =>
    LET p == PayloadsOf("settings", "settingChanged") IN
    /\ Cardinality(DOMAIN p) = 1
    /\ \A n \in DOMAIN p :
         /\ Props(p[n]).key = Str(call.key)
         /\ Props(p[n]).value = Str(call.value)
         /\ call.old # Null =>
              /\ "oldValue" \in DOMAIN Props(p[n])
              /\ Props(p[n])["oldValue"] = call.old

(***************************************************************************)
(* C17: a settings operation that fails on an I/O error of its save emits  *)
(* exactly one error event, whose operation field names the operation the  *)
(* caller invoked.                                                         *)
(***************************************************************************)
OneErrorEventPerFailedCall ==
  call.res = WriteFailed =>
    LET p == PayloadsOf("settings", "error") IN
    /\ Cardinality(DOMAIN p) = 1
    /\ \A n \in DOMAIN p : Props(p[n]).operation = Str(call.op)

(***************************************************************************)
(* C18: when the settings document holds malformed JSON, no .bak exists    *)
(* and the cache is not loaded, getSetting and getAllSettings on the       *)
(* initialized repository do not raise, and getSetting returns the default *)
(* the caller supplied.                                                    *)
(***************************************************************************)
CorruptionAbsorbedOnRead ==
  (/\ call.op \in {"getSetting", "getAllSettings"}
   /\ isInitialized["settings"]
   /\ call.nullBefore
   /\ call.before = Garbage
   /\ call.bakBefore = Absent)
    => /\ call.res[1] # "throw"
       /\ call.op = "getSetting" => call.res = Val(call.value)

\* the settings array a call works on: the document on disk when the cache
\* was null at its start, else the cache
WorkedOn ==
  IF ~call.nullBefore THEN call.cached
  ELSE IF call.before = Absent THEN <<>>
  ELSE JsonParse(call.before)[2][2]

\* the call ran past the guard, and a document it had to load was readable
SettingsCallRan ==
  /\ call.op \in {"getSetting", "setSetting", "deleteSetting", "getAllSettings"}
  /\ call.res # Rejected("SettingsRepository not initialized")
  /\ call.nullBefore =>
       (call.before = Absent \/ JsonParse(call.before)[1] = "ok")

CacheRolledBack ==
  (/\ call.op \in {"setSetting", "deleteSetting"}
   /\ call.res = WriteFailed
   /\ ~call.nullBefore)
  => /\ ~cacheNull
     /\ settings = call.cached
     /\ JsonParse(dest)[1] = "ok" => JsonParse(dest)[2] = Arr(settings)

(* C36: every record of the settings cache whose `encrypted` flag is true  *)
(* holds ciphertext in `value` together with an `iv`, whether or not the   *)
(* encryption service was enabled when the record was set.                 *)
EncryptedFlagMeansCipher ==
  \A i \in 1..Len(settings) :
    Props(settings[i]).encrypted = True
      => /\ IsCipher(Props(settings[i]).value)
         /\ "iv" \in DOMAIN Props(settings[i])
(***************************************************************************)
(* Claims about StorageManagerAdapter and the repositories' guards          *)
(***************************************************************************)
DomainEvents ==
  {"entityCreated", "entityUpdated", "entityDeleted", "settingChanged",
   "settingDeleted", "metadataStored", "metadataUpdated", "metadataDeleted"}

WithSource(payload, r) == Obj(Merge(payload[2], [source |-> Str(r)]))

(* C13: every domain event emitted by a repository the adapter was given   *)
(* is followed by an emission of the adapter with the same name and the    *)
(* same payload plus `source` naming the repository.                       *)
DomainEventsReEmitted ==
  \A i \in 1..Len(emitted) :
    (/\ emitted[i].by \in Repos
     /\ supplied[emitted[i].by]
     /\ emitted[i].name \in DomainEvents)
    => \E j \in (i + 1)..Len(emitted) :
         emitted[j] = Event("adapter", emitted[i].name,
                            WithSource(emitted[i].payload, emitted[i].by))

(* C14: a delegated method called while the adapter's flag is false is     *)
(* rejected with 'StorageManagerAdapter not initialized' and no repository *)
(* is invoked, also when the repository is missing as well; called on an   *)
(* initialized adapter without the repository it is rejected with          *)
(* '<Label> repository not available'; the two rejections differ.         *)
AdapterGuardOrder ==
  (call.target = "adapter" /\ call.method \in AdapterMethods)
  => /\ ~isInitialized["adapter"]
          => (call.res = NotInitialized("adapter") /\ ~call.invoked)
     /\ (isInitialized["adapter"] /\ ~supplied[RepoOf(call.method)])
          => (call.res = NotAvailable(RepoOf(call.method)) /\ ~call.invoked)
     /\ \A r \in Repos : NotInitialized("adapter") # NotAvailable(r)

\* a call before initialization of a method whose repository is missing too
AdapterGuardOrderWitness ==
  /\ call.target = "adapter"
  /\ call.method = "getSetting"
  /\ ~isInitialized["adapter"]
  /\ ~supplied["settings"]
  /\ supplied["entity"]
  /\ call.res = NotInitialized("adapter")

ForwardsOf(i) ==
  {j \in (i + 1)..Len(emitted) :
     \A k \in (i + 1)..j : emitted[k].by = "adapter"}

(* C32: for each `error` event emitted by a repository the adapter was     *)
(* given, the adapter emits `error` exactly once, with the same payload.   *)
ErrorForwardedOnce ==
  \A i \in 1..Len(emitted) :
    (/\ emitted[i].by \in Repos
     /\ supplied[emitted[i].by]
     /\ emitted[i].name = "error")
    => Cardinality({j \in ForwardsOf(i) :
                      emitted[j] = Event("adapter", "error", emitted[i].payload)}) = 1

(* C33: whenever the adapter emits `initialized` its isInitialized flag is *)
(* true, so that a delegated method called from a listener of that event   *)
(* passes the adapter's own guard.                                         *)
InitializedAfterFlag ==
  \A i \in 1..Len(emitted) :
    (emitted[i].by = "adapter" /\ emitted[i].name = "initialized")
    => /\ isInitialized["adapter"]
       /\ \A m \in AdapterMethods : AdapterGuard(m) # "notInitialized"

\* the last step was an operation that failed: its catch block emitted `error`
OperationFailed ==
  /\ call.target \in Components
  /\ call.method \in AdapterMethods
  /\ call.invoked
  /\ emitted # <<>>
  /\ emitted[1].name = "error"

(* C38: a failed repository operation rejects with the underlying error,   *)
(* whether or not anything listens to the `error` event of the repository  *)
(* or of the adapter: emitting `error` never replaces the error the caller *)
(* receives.                                                               *)
ErrorNeverMasked == OperationFailed => call.res = WriteFailed

(***************************************************************************)
(* C19: after a successful writeJsonFile(path, V, {createBackup: true}),   *)
(* a first write to an absent path included, if the destination is then    *)
(* overwritten with malformed JSON, readJsonFile(path) returns V.          *)
(***************************************************************************)
LastWrittenValueRecovered ==
  (scn[1] = "corruptedRead" /\ scn[3]) => rres = Val(scn[2])

(***************************************************************************)
(* C20: verifyFileIntegrity returns true directly after a writeJsonFile    *)
(* with storeChecksum, false once the content was changed out of band      *)
(* since that write, and true when no checksum was ever stored.            *)
(***************************************************************************)
ChecksumIntegrity ==
  vres # <<"none">> =>
    /\ (scn[1] = "written" /\ scn[4]) => vres = True
    /\ (/\ scn[1] \in {"changed", "corrupted"} /\ scn[4]
        /\ dest # Stringify(scn[2], TRUE)) => vres = False
    /\ checksum = Absent => vres = True

\* a file written with a checksum and then overwritten fails the verification
ChecksumIntegrityWitness ==
  /\ vres = False
  /\ scn[1] = "changed"
  /\ scn[4]
  /\ JsonParse(dest)[1] = "ok"

\* the content of the file was last changed by a writeJsonFile call that
\* returned, or by the recovery from the backup made on a read
LastChangeLegitimate ==
  \/ scn[1] = "written"
  \/ /\ scn[1] = "corruptedRead"
     /\ dest = bak
     /\ JsonParse(bak)[1] = "ok"

(***************************************************************************)
(* C39: verifyFileIntegrity returns true whenever the content of the file  *)
(* was last changed by a successful writeJsonFile or recoverFromBackup     *)
(* call, whatever storeChecksum options the earlier writes of the path     *)
(* carried.                                                                *)
(***************************************************************************)
IntegrityFollowsWrites ==
  (vres # <<"none">> /\ LastChangeLegitimate) => vres = True
(***************************************************************************)
(* Claims about concurrent calls                                           *)
(***************************************************************************)
\* the partial of the call p changes every field it names of the record it read
ChangesRecordRead(p) ==
  \A f \in DOMAIN ureq[p].partial :
    \/ f \notin DOMAIN Props(ureq[p].existing)
    \/ Props(ureq[p].existing)[f] # ureq[p].partial[f]

\* the two calls have returned their merges and had read the same record
BothUpdatedFromSameRead(p, q) ==
  /\ p # q
  /\ upc[p] = "idle" /\ upc[q] = "idle"
  /\ ureq[p].res = Val(ureq[p].updated)
  /\ ureq[q].res = Val(ureq[q].updated)
  /\ ureq[p].existing = ureq[q].existing
  /\ DOMAIN ureq[p].partial \cap DOMAIN ureq[q].partial = {}
  /\ ChangesRecordRead(p) /\ ChangesRecordRead(q)

\* the stored record is the merge of w and lacks the change of the call o
StoredOnlyOf(w, o) ==
  /\ efile[SharedId] = Stringify(ureq[w].updated, TRUE)
  /\ \A f \in DOMAIN ureq[o].partial :
       \/ f \notin DOMAIN Props(ureq[w].updated)
       \/ Props(ureq[w].updated)[f] # ureq[o].partial[f]

(* C21: updates of one record are not serialized: whenever two             *)
(* updateEntity calls whose partials change different fields both read     *)
(* the record before either stored and both returned their merge, the      *)
(* stored record is the merge of one of them and lacks the change of the   *)
(* other.                                                                  *)
LostUpdate ==
  \A p \in Procs, q \in Procs :
    BothUpdatedFromSameRead(p, q) => (StoredOnlyOf(p, q) \/ StoredOnlyOf(q, p))

\* both calls returned successfully; the title change of p1 is not stored
LostUpdateWitness ==
  /\ BothUpdatedFromSameRead("p1", "p2")
  /\ ureq["p1"].partial = [title |-> Str("B")]
  /\ ureq["p2"].partial = [note |-> Str("N")]
  /\ StoredOnlyOf("p2", "p1")
  /\ Props(JsonParse(efile[SharedId])[2]).title = Str("A")

(* C22: with two writeJsonFile calls in flight on one path, the            *)
(* destination is at every moment absent (its content before the first     *)
(* write) or the complete serialization of a document some call was given. *)
DestNeverHalfWritten ==
  dest \in {Absent} \cup {Stringify(d, TRUE) : d \in FileData}


\* every caller has issued a writeJsonFile call and all calls have returned
AllWritersReturned ==
  \A p \in Procs : wpc[p] = "idle" /\ wres[p] \in {"ok", "threw"}

(* C31: when two writeJsonFile calls on one path have run, in whatever     *)
(* interleaving, both have completed without raising and the destination   *)
(* holds the complete document of one of them.                             *)
LastWriteWins ==
  AllWritersReturned =>
    /\ \A p \in Procs : wres[p] = "ok"
    /\ dest \in {Stringify(wreq[p].data, TRUE) : p \in Procs}

\* the callers whose deleteEntity call returned res
DeletesReturning(res) == {p \in Procs : upc[p] = "done" /\ ureq[p].res = res}

\* the entityDeleted events emitted by the callers' deleteEntity calls
DeletedEventsBy ==
  {p \in Procs : \E i \in 1..Len(ureq[p].events) :
                    ureq[p].events[i][1] = "entityDeleted"}

(* C34: when two deleteEntity calls on one stored record have returned, in *)
(* whatever interleaving, exactly one returned true, the other returned    *)
(* false, and exactly one entityDeleted event was emitted.                 *)
ExactlyOneDelete ==
  (\A p \in Procs : upc[p] = "done") =>
    /\ Cardinality(DeletesReturning(True)) = 1
    /\ Cardinality(DeletesReturning(False)) = 1
    /\ Cardinality(DeletedEventsBy) = 1
    /\ \A p \in Procs : Len(ureq[p].events) <= 1
(***************************************************************************)
(* Claims about the metadata repository and the transaction log            *)
(***************************************************************************)
(* C27: listMetadataKeys returns exactly the keys stored or updated and    *)
(* not deleted since, and getMetadata(k, d) returns d exactly for the keys *)
(* outside that set.                                                       *)
MetadataKeysListed ==
  /\ mlast.op = "list" => mlast.res = Val(mlive)
  /\ mlast.op = "get" => ((mlast.res = Val(mlast.arg)) <=> (mlast.key \notin mlive))

(***************************************************************************)
(* The adapter over the repositories against the direct-mode               *)
(* StorageManager                                                          *)
(***************************************************************************)
\* an error whatever its message
Outcome(res) == IF res[1] = "throw" THEN Thrown ELSE res

EntityCalls == {"create", "get", "update", "delete"}

(* C28: with encryption disabled on both sides and no encryption option   *)
(* in any call, every createEntity, getEntity, updateEntity and            *)
(* deleteEntity call returns through the repositories what the             *)
(* direct-mode StorageManager returns for the same sequence of calls: the  *)
(* same value, the same null or false for a missing record, an error       *)
(* where it raises one.                                                    *)
AdapterMatchesDirect ==
  (~enabled /\ ~encUsed /\ last.op \in EntityCalls)
    => Outcome(last.res) = Outcome(dres)

(***************************************************************************)
(* Transaction log                                                         *)
(***************************************************************************)
LoggedOperations == [i \in 1..Len(treq.logged) |-> treq.logged[i].operation]

\* the entries of the last call are in the directory as it logged them
LoggedInDirectory ==
  \A i \in 1..Len(treq.logged) :
    LET e == treq.logged[i] IN
      /\ LogFileName(e.timestamp, e.operation) \in DOMAIN tdir
      /\ tdir[LogFileName(e.timestamp, e.operation)].operation = e.operation

\* positions of the entry e in a list of log entries
PositionsOf(e, logs) ==
  {i \in 1..Len(logs) :
     logs[i].operation = e.operation /\ logs[i].timestamp = e.timestamp}

\* start entry, then exactly one closing entry that matches the outcome
TransactionBracketed ==
  /\ tpc = "action" =>
       /\ LoggedOperations = <<treq.operation \o "_start">>
       /\ LoggedInDirectory
  /\ (tpc = "idle" /\ treq.count > 0) =>
       /\ LoggedInDirectory
       /\ tres = treq.outcome
       /\ \/ /\ treq.outcome[1] = "val"
             /\ LoggedOperations =
                  <<treq.operation \o "_start", treq.operation \o "_complete">>
          \/ /\ treq.outcome[1] = "throw"
             /\ LoggedOperations =
                  <<treq.operation \o "_start", treq.operation \o "_failed">>

\* in the returned list the start entry of the last call precedes its closing entry
StartListedFirst ==
  (tpc = "idle" /\ treq.count > 0) =>
    \A i \in PositionsOf(treq.logged[1], tlogs),
       j \in PositionsOf(treq.logged[2], tlogs) : i < j

(* C29: a withTransaction(op, path, action) call records `<op>_start`      *)
(* before the action runs and afterwards exactly one of `<op>_complete`    *)
(* (the action resolved, its result is returned) or `<op>_failed` (the     *)
(* action rejected, the same error is raised again), and                   *)
(* getTransactionLogs returns the start entry before the matching closing  *)
(* entry.                                                                  *)
TransactionLogged == TransactionBracketed /\ StartListedFirst

====
